---- MODULE Spec2Model ----
(***************************************************************************)
(* A model of the rrule library: the recurrence generator (generator.ts),  *)
(* the RRule class with its setters and queries (rrule.ts), the sanitizer  *)
(* (sanitize.ts) and the textual codec (format.ts, parser.ts, parse.ts).   *)
(*                                                                         *)
(* Moments are records [year, month, day, hour, minute, second, type]      *)
(* with type "date" (CalendarDate), "datetime" (CalendarDateTime) or       *)
(* "none" (undefined).  Milliseconds are always 0 and zoned values are     *)
(* not modelled.  An undefined number is Undefined (-1); an undefined      *)
(* list is the empty sequence, which no code path distinguishes from [].   *)
(* A byweekday entry is [weekday, n, bare]: bare = TRUE is the string form *)
(* 'MO', bare = FALSE the object form {weekday, n}.                        *)
(***************************************************************************)
EXTENDS Integers, Sequences, FiniteSets, TLC

(***************************************************************************)
(* Calendar primitives (date.ts and the Gregorian calendar it calls)       *)
(***************************************************************************)

Undefined == -1

WEEKDAYS == <<"MO", "TU", "WE", "TH", "FR", "SA", "SU">>

Frequencies == {"YEARLY", "MONTHLY", "WEEKLY", "DAILY", "HOURLY", "MINUTELY", "SECONDLY"}

NoDate == [year |-> 0, month |-> 0, day |-> 0, hour |-> 0, minute |-> 0, second |-> 0, type |-> "none"]

CalendarDate(y, m, d) ==
  [year |-> y, month |-> m, day |-> d, hour |-> 0, minute |-> 0, second |-> 0, type |-> "date"]

CalendarDateTime(y, m, d, h, mi, s) ==
  [year |-> y, month |-> m, day |-> d, hour |-> h, minute |-> mi, second |-> s, type |-> "datetime"]

HasTime(date) == date.type = "datetime"

isLeapYear(year) ==
  (year % 4 = 0 /\ year % 100 # 0) \/ year % 400 = 0

getDaysInMonthOf(year, month) ==
  CASE month = 2 -> IF isLeapYear(year) THEN 29 ELSE 28
    [] month \in {4, 6, 9, 11} -> 30
    [] OTHER -> 31

getDaysInMonth(date) == getDaysInMonthOf(date.year, date.month)

\* calendar.toJulianDay for the Gregorian calendar (whole days)
toJulianDayOf(year, month, day) ==
  1721425 + 365 * (year - 1) + ((year - 1) \div 4) - ((year - 1) \div 100)
    + ((year - 1) \div 400) + ((367 * month - 362) \div 12)
    + (IF month <= 2 THEN 0 ELSE IF isLeapYear(year) THEN -1 ELSE -2) + day

toJulianDay(date) == toJulianDayOf(date.year, date.month, date.day)

\* calendar.fromJulianDay: the year of a day counted from the epoch, from
\* its 400-year, 100-year and 4-year cycles and the year within the last
yearOfCycles(quadricent, cent, quad, yindex) ==
  quadricent * 400 + cent * 100 + quad * 4 + yindex
    + (IF cent # 4 /\ yindex # 4 THEN 1 ELSE 0)

yearOfEpochDay(depoch) ==
  yearOfCycles(depoch \div 146097,
               (depoch % 146097) \div 36524,
               ((depoch % 146097) % 36524) \div 1461,
               (((depoch % 146097) % 36524) % 1461) \div 365)

monthOfJulianDay(jd, year) ==
  ((jd - toJulianDayOf(year, 1, 1)
      + (IF jd < toJulianDayOf(year, 3, 1) THEN 0 ELSE IF isLeapYear(year) THEN 1 ELSE 2))
     * 12 + 373) \div 367

dayOfJulianDay(jd, year, month) ==
  [year |-> year, month |-> month, day |-> jd - toJulianDayOf(year, month, 1) + 1]

fromJulianDayIn(jd, year) == dayOfJulianDay(jd, year, monthOfJulianDay(jd, year))

\* calendar.fromJulianDay: the year, month and day of a Julian day number
fromJulianDay(jd) == fromJulianDayIn(jd, yearOfEpochDay(jd - 1721426))

getDayOfWeek(date) == toJulianDay(date) % 7

getWeekday(date) == WEEKDAYS[getDayOfWeek(date) + 1]

getWeekdayIndex(weekday) ==
  CHOOSE i \in 0..6 : WEEKDAYS[i + 1] = weekday

SecondOfDay(date) == date.hour * 3600 + date.minute * 60 + date.second

compareInstants(ja, sa, jb, sb) ==
  IF ja < jb THEN -1
  ELSE IF ja > jb THEN 1
  ELSE IF sa < sb THEN -1
  ELSE IF sa > sb THEN 1
  ELSE 0

\* date.compare(other): -1, 0 or 1; a CalendarDate compares as midnight
compareDates(a, b) ==
  compareInstants(toJulianDay(a), SecondOfDay(a), toJulianDay(b), SecondOfDay(b))

calculateDifferenceInDays(start, end) ==
  (toJulianDay(end) - toJulianDay(start))
    + (IF SecondOfDay(end) < SecondOfDay(start) THEN -1 ELSE 0)

\* the library's constrain step: a day beyond the month becomes its last day
constrainDay(day, daysInMonth) ==
  IF day > daysInMonth THEN daysInMonth ELSE IF day < 1 THEN 1 ELSE day

\* date.set(fields) followed by the library's constrain step on the day
WithYMD(date, y, m, d) ==
  [date EXCEPT !.year = y, !.month = m, !.day = constrainDay(d, getDaysInMonthOf(y, m))]

\* fields[name] when the field is given, the old value otherwise
fieldOr(fields, name, old) == IF name \in DOMAIN fields THEN fields[name] ELSE old

setFields(date, fields) ==
  [WithYMD(date, fieldOr(fields, "year", date.year), fieldOr(fields, "month", date.month),
                 fieldOr(fields, "day", date.day))
     EXCEPT !.hour = IF HasTime(date) THEN fieldOr(fields, "hour", date.hour) ELSE date.hour,
            !.minute = IF HasTime(date) THEN fieldOr(fields, "minute", date.minute) ELSE date.minute,
            !.second = IF HasTime(date) THEN fieldOr(fields, "second", date.second) ELSE date.second]

\* date.add: the months (and years) of a duration, the day constrained to
\* the target month; months0 counts months from year 0
addMonths(date, months0) ==
  WithYMD(date, months0 \div 12, (months0 % 12) + 1, date.day)

withDay(date, c) == [date EXCEPT !.year = c.year, !.month = c.month, !.day = c.day]

addDays(date, days) == withDay(date, fromJulianDay(toJulianDay(date) + days))

withSecondOfDay(date, s) ==
  IF HasTime(date)
    THEN [date EXCEPT !.hour = s \div 3600, !.minute = (s % 3600) \div 60, !.second = s % 60]
    ELSE date

\* the date moved by whole months, whole days and the time of day tod
\* (seconds, possibly beyond the day, which carries into the days)
addBalanced(date, months0, days, tod) ==
  withSecondOfDay(
    addDays(addMonths(date, months0), days + (IF HasTime(date) THEN tod \div 86400 ELSE 0)),
    tod % 86400)

\* date.add(duration): years and months first (day constrained to the target
\* month), then weeks and days, then the time fields with carry into days
addDuration(date, duration) ==
  addBalanced(date,
    (date.year + fieldOr(duration, "years", 0)) * 12 + (date.month - 1)
      + fieldOr(duration, "months", 0),
    7 * fieldOr(duration, "weeks", 0) + fieldOr(duration, "days", 0),
    SecondOfDay(date) + fieldOr(duration, "hours", 0) * 3600
      + fieldOr(duration, "minutes", 0) * 60 + fieldOr(duration, "seconds", 0))

subtractDuration(date, duration) ==
  addDuration(date, [k \in DOMAIN duration |-> 0 - duration[k]])

getStartOfWeek(date, wkst) ==
  subtractDuration(date,
    [days |-> (getWeekdayIndex(getWeekday(date))
                 - getWeekdayIndex(IF wkst = "" THEN "MO" ELSE wkst) + 7) % 7])

\* getStartOfYear / getEndOfYear return a CalendarDateTime at the first
\* (last) instant of the year; only their calendar day is used by callers
getStartOfYear(date) == CalendarDateTime(date.year, 1, 1, 0, 0, 0)

getEndOfYear(date) == CalendarDateTime(date.year, 12, 31, 23, 59, 59)

weeksInYearFrom(year, firstWeekday, wkstIndex) ==
  IF firstWeekday = wkstIndex THEN 53
  ELSE IF isLeapYear(year) /\ firstWeekday = (wkstIndex - 1 + 7) % 7 THEN 53
  ELSE 52

getWeeksInYear(date, wkst) ==
  weeksInYearFrom(date.year, getDayOfWeek(getStartOfYear(date)),
                  getWeekdayIndex(IF wkst = "" THEN "MO" ELSE wkst))

(***************************************************************************)
(* Array helpers                                                           *)
(***************************************************************************)

Includes(seq, x) == \E i \in DOMAIN seq : seq[i] = x

Range(seq) == {seq[i] : i \in DOMAIN seq}

\* the least and the greatest of a non-empty set of integers
Least(S) == CHOOSE i \in S : \A j \in S : i <= j

Greatest(S) == CHOOSE i \in S : \A j \in S : j <= i

\* the comparator leaves dates[j] before dates[i]: it compares smaller, or
\* equal and listed earlier (Array.prototype.sort is stable)
sortsBefore(dates, j, i) ==
  \/ compareDates(dates[j], dates[i]) < 0
  \/ compareDates(dates[j], dates[i]) = 0 /\ j < i

sortRank(dates, i) == Cardinality({j \in DOMAIN dates : sortsBefore(dates, j, i)}) + 1

isSorted(dates) ==
  \A i \in 1..(Len(dates) - 1) : compareDates(dates[i], dates[i + 1]) <= 0

sortByRank(dates, rank) ==
  [k \in DOMAIN dates |-> dates[CHOOSE i \in DOMAIN dates : rank[i] = k]]

\* dates.sort((a, b) => compareDates(a, b)): a stable sort, each date placed
\* after the dates that compare smaller and the equal ones listed before it
SortDates(dates) ==
  IF isSorted(dates) THEN dates
  ELSE sortByRank(dates, [i \in DOMAIN dates |-> sortRank(dates, i)])

\* the concatenation of the arrays of an array (flatMap, push(...dates))
RECURSIVE Flatten(_)
Flatten(seqs) ==
  IF Len(seqs) = 0 THEN <<>>
  ELSE IF Len(seqs) = 1 THEN seqs[1]
  ELSE Flatten(SubSeq(seqs, 1, Len(seqs) \div 2))
         \o Flatten(SubSeq(seqs, (Len(seqs) \div 2) + 1, Len(seqs)))

\* the ascending sequence of the integers of a finite set
Ascending(S) ==
  IF S = {} THEN <<>>
  ELSE [k \in 1..Cardinality(S) |->
          CHOOSE x \in S : Cardinality({y \in S : y < x}) = k - 1]

(***************************************************************************)
(* Period expansion (generator.ts)                                         *)
(***************************************************************************)

isWeekday(day) == day.bare

Bare(weekday) == [weekday |-> weekday, n |-> 0, bare |-> TRUE]

Nth(n, weekday) == [weekday |-> weekday, n |-> n, bare |-> FALSE]

\* (d) => (d > 0 ? d : daysInMonth + d + 1)
normalizedDay(d, daysInPeriod) == IF d > 0 THEN d ELSE daysInPeriod + d + 1

\* bymonthday.map((d) => (d > 0 ? d : daysInMonth + d + 1)).includes(day)
MonthDayMatches(bymonthday, date) ==
  \E i \in DOMAIN bymonthday :
    normalizedDay(bymonthday[i], getDaysInMonth(date)) = date.day

\* rebuild a computed CalendarDateTime in the cursor's own variant: copy the
\* cursor's time fields, or convert back to a CalendarDate
LikeCursor(cursor, date) ==
  IF HasTime(cursor)
    THEN setFields(date, [hour |-> cursor.hour, minute |-> cursor.minute, second |-> cursor.second])
    ELSE CalendarDate(date.year, date.month, date.day)

\* the limiters BYMONTH and BYMONTHDAY let the date through
passesMonthLimits(date, options) ==
  /\ ~(Len(options.bymonth) > 0 /\ ~Includes(options.bymonth, date.month))
  /\ ~(Len(options.bymonthday) > 0 /\ ~MonthDayMatches(options.bymonthday, date))

\* byweekday.filter(isWeekday) is empty, or holds the weekday of the date
passesSimpleWeekdays(date, simpleWeekdays) ==
  ~(Len(simpleWeekdays) > 0 /\ ~Includes(simpleWeekdays, Bare(getWeekday(date))))

expandDaily(cursor, options) ==
  IF ~passesMonthLimits(cursor, options) THEN <<>>
  ELSE IF Len(options.byweekday) > 0
          /\ ~passesSimpleWeekdays(cursor, SelectSeq(options.byweekday, isWeekday)) THEN <<>>
  ELSE <<cursor>>

\* the seven days from the start of a week on
weekFrom(startOfWeek) == [i \in 1..7 |-> addDuration(startOfWeek, [days |-> i - 1])]

\* the weekdays BYDAY names, or the one of the cursor when BYDAY is absent
weekdaysOf(byweekday, otherwise) ==
  IF Len(byweekday) > 0 THEN {byweekday[i].weekday : i \in DOMAIN byweekday} ELSE otherwise

\* expandWeekly taking every week to start on Monday
expandWeeklyFromMonday(cursor, options) ==
  SortDates(SelectSeq(weekFrom(getStartOfWeek(cursor, "")),
    LAMBDA date :
      /\ getWeekday(date) \in weekdaysOf(options.byweekday, {getWeekday(cursor)})
      /\ passesMonthLimits(date, options)))

expandWeekly(cursor, options) ==
  SortDates(SelectSeq(weekFrom(getStartOfWeek(cursor, options.wkst)),
    LAMBDA date :
      /\ getWeekday(date) \in weekdaysOf(options.byweekday, {getWeekday(cursor)})
      /\ passesMonthLimits(date, options)))

\* the days of the cursor's month that fall on the weekday
weekdayBucket(cursor, weekday) ==
  SelectSeq([day \in 1..getDaysInMonth(cursor) |-> setFields(cursor, [day |-> day])],
            LAMBDA date : getWeekday(date) = weekday)

\* dates[idx] when the index (counted from 0) is in the array
atIndex(dates, idx) ==
  IF Len(dates) > 0 /\ idx >= 0 /\ idx < Len(dates) THEN <<dates[idx + 1]>> ELSE <<>>

\* a bare weekday takes the whole bucket, { weekday, n } its n-th entry
weekdayHits(day, dates) ==
  IF isWeekday(day) THEN dates
  ELSE atIndex(dates, IF day.n > 0 THEN day.n - 1 ELSE Len(dates) + day.n)

\* expandByWeekdayInMonth taking the whole bucket for every entry
expandEveryWeekdayInMonth(cursor, byweekday) ==
  Flatten([i \in DOMAIN byweekday |-> weekdayBucket(cursor, byweekday[i].weekday)])

expandByWeekdayInMonth(cursor, byweekday) ==
  Flatten([i \in DOMAIN byweekday |->
             weekdayHits(byweekday[i], weekdayBucket(cursor, byweekday[i].weekday))])

\* the days of the month BYMONTHDAY names
monthDayHits(bymonthday, daysInMonth) ==
  {normalizedDay(bymonthday[i], daysInMonth) : i \in DOMAIN bymonthday} \cap (1..daysInMonth)

onDays(cursor, days) == [i \in DOMAIN days |-> setFields(cursor, [day |-> days[i]])]

onDaysAmong(dates, days) ==
  IF days # {} THEN SelectSeq(dates, LAMBDA date : date.day \in days) ELSE dates

expandMonthlyBy(cursor, options, byMonthDayHits) ==
  IF Len(options.bymonth) > 0 /\ ~Includes(options.bymonth, cursor.month) THEN <<>>
  ELSE IF Len(options.byweekday) = 0 /\ Len(options.bymonthday) = 0 THEN <<cursor>>
  ELSE IF byMonthDayHits # {} /\ Len(options.byweekday) = 0
    THEN SortDates(onDays(cursor, Ascending(byMonthDayHits)))
  ELSE IF Len(options.byweekday) > 0
    THEN SortDates(onDaysAmong(expandByWeekdayInMonth(cursor, options.byweekday),
                               byMonthDayHits))
  ELSE <<>>

expandMonthly(cursor, options) ==
  expandMonthlyBy(cursor, options, monthDayHits(options.bymonthday, getDaysInMonth(cursor)))

daysInYearOf(cursor) ==
  calculateDifferenceInDays(getStartOfYear(cursor), getEndOfYear(cursor)) + 1

\* if (date.year === cursor.year) dates.push(date)
inCursorYear(cursor, date) == IF date.year = cursor.year THEN <<date>> ELSE <<>>

yearDayDate(cursor, dayNum, daysInYear) ==
  IF dayNum <= 0 \/ dayNum > daysInYear THEN <<>>
  ELSE inCursorYear(cursor,
         LikeCursor(cursor, addDuration(getStartOfYear(cursor), [days |-> dayNum - 1])))

expandByYearDay(cursor, byyearday) ==
  SortDates(Flatten([i \in DOMAIN byyearday |->
    yearDayDate(cursor, normalizedDay(byyearday[i], daysInYearOf(cursor)),
                daysInYearOf(cursor))]))

\* the n-th weekday of the year, counted from its start or from its end
ordinalDayInYear(cursor, day) ==
  IF day.n > 0
    THEN addDuration(getStartOfYear(cursor),
           [days |-> ((getWeekdayIndex(day.weekday)
                         - getWeekdayIndex(getWeekday(getStartOfYear(cursor))) + 7) % 7)
                       + 7 * (day.n - 1)])
    ELSE subtractDuration(getEndOfYear(cursor),
           [days |-> ((getWeekdayIndex(getWeekday(getEndOfYear(cursor)))
                         - getWeekdayIndex(day.weekday) + 7) % 7)
                       + 7 * (0 - day.n - 1)])

expandOrdinalByDayInYear(cursor, byweekday) ==
  Flatten([i \in DOMAIN byweekday |->
    IF isWeekday(byweekday[i]) THEN <<>>
    ELSE inCursorYear(cursor, LikeCursor(cursor, ordinalDayInYear(cursor, byweekday[i])))])

\* the week of January 4th, from the week start on
firstWeekOfYear(cursor, wkst) ==
  getStartOfWeek(setFields(getStartOfYear(cursor), [month |-> 1, day |-> 4]), wkst)

LikeCursorAll(cursor, dates) == [i \in DOMAIN dates |-> LikeCursor(cursor, dates[i])]

weekNoDates(cursor, byweekday, wkst, normalizedWeekNo, weeksInYear) ==
  IF normalizedWeekNo <= 0 \/ normalizedWeekNo > weeksInYear THEN <<>>
  ELSE LikeCursorAll(cursor,
         SelectSeq(weekFrom(addDuration(firstWeekOfYear(cursor, wkst),
                                        [weeks |-> normalizedWeekNo - 1])),
           LAMBDA date : /\ getWeekday(date) \in weekdaysOf(byweekday, Range(WEEKDAYS))
                         /\ date.year = cursor.year))

expandByWeekNo(cursor, byweekno, byweekday, wkst) ==
  Flatten([i \in DOMAIN byweekno |->
    weekNoDates(cursor, byweekday, wkst,
                normalizedDay(byweekno[i], getWeeksInYear(cursor, wkst)),
                getWeeksInYear(cursor, wkst))])

inMonths(dates, bymonth) ==
  IF Len(bymonth) > 0 THEN SelectSeq(dates, LAMBDA date : Includes(bymonth, date.month))
  ELSE dates

\* the months a yearly rule expands: BYMONTH, every month when BYMONTHDAY
\* or BYDAY is given, the month of the cursor otherwise
targetMonths(cursor, options) ==
  IF Len(options.bymonth) > 0 THEN options.bymonth
  ELSE IF Len(options.bymonthday) > 0 \/ Len(options.byweekday) > 0
    THEN <<1, 2, 3, 4, 5, 6, 7, 8, 9, 10, 11, 12>>
  ELSE <<cursor.month>>

expandMonthOfYear(cursor, options, month) ==
  IF Len(options.byweekday) > 0 \/ Len(options.bymonthday) > 0
    THEN expandMonthly(setFields(cursor, [month |-> month, day |-> 1]), options)
    ELSE <<setFields(cursor, [month |-> month])>>

expandMonthsOfYear(cursor, options, months) ==
  Flatten([i \in DOMAIN months |-> expandMonthOfYear(cursor, options, months[i])])

expandYearly(cursor, options) ==
  SortDates(
    IF (\E i \in DOMAIN options.byweekday : ~isWeekday(options.byweekday[i]))
         /\ Len(options.bymonth) = 0
      THEN expandOrdinalByDayInYear(cursor, options.byweekday)
      ELSE (IF Len(options.byyearday) > 0
              THEN inMonths(expandByYearDay(cursor, options.byyearday), options.bymonth)
              ELSE <<>>)
           \o (IF Len(options.byweekno) > 0
                 THEN expandByWeekNo(cursor, options.byweekno, options.byweekday, options.wkst)
                 ELSE <<>>)
           \o (IF Len(options.byyearday) = 0 /\ Len(options.byweekno) = 0
                 THEN expandMonthsOfYear(cursor, options, targetMonths(cursor, options))
                 ELSE <<>>))

\* expandMinutely and expandSecondly delegate to expandHourly
expandHourly(cursor, options) ==
  IF ~passesMonthLimits(cursor, options) THEN <<>>
  ELSE IF Len(options.byweekday) > 0
          /\ ~passesSimpleWeekdays(cursor, SelectSeq(options.byweekday, isWeekday)) THEN <<>>
  ELSE <<cursor>>

\* getFrequencyExpander(freq)(cursor, options)
expandPeriod(cursor, options) ==
  CASE options.freq = "YEARLY" -> expandYearly(cursor, options)
    [] options.freq = "MONTHLY" -> expandMonthly(cursor, options)
    [] options.freq = "WEEKLY" -> expandWeekly(cursor, options)
    [] options.freq = "DAILY" -> expandDaily(cursor, options)
    [] OTHER -> expandHourly(cursor, options)

\* the date at every combination of the hours, minutes and seconds, hours
\* outermost
timesOf(date, hours, minutes, seconds) ==
  [k \in 1..(Len(hours) * Len(minutes) * Len(seconds)) |->
     setFields(date,
       [hour |-> hours[((k - 1) \div (Len(minutes) * Len(seconds))) + 1],
        minute |-> minutes[(((k - 1) \div Len(seconds)) % Len(minutes)) + 1],
        second |-> seconds[((k - 1) % Len(seconds)) + 1]])]

orOnly(values, value) == IF Len(values) > 0 THEN values ELSE <<value>>

expandByTime(date, options) ==
  IF Len(options.byhour) = 0 /\ Len(options.byminute) = 0 /\ Len(options.bysecond) = 0
    THEN <<date>>
  ELSE IF ~HasTime(date) THEN <<date>>
  ELSE timesOf(date, orOnly(options.byhour, date.hour), orOnly(options.byminute, date.minute),
               orOnly(options.bysecond, date.second))

\* sorted[index] for a BYSETPOS position, positions below 0 counted from the end
atPosition(sorted, position) ==
  atIndex(sorted, IF position > 0 THEN position - 1 ELSE Len(sorted) + position)

pickPositions(sorted, bysetpos) ==
  Flatten([i \in DOMAIN bysetpos |-> atPosition(sorted, bysetpos[i])])

applyBySetPos(dates, options) ==
  IF Len(options.bysetpos) = 0 THEN dates
  ELSE SortDates(pickPositions(SortDates(dates), options.bysetpos))

\* the duration of `interval` periods of the frequency
periodsOf(freq, interval) ==
  CASE freq = "YEARLY" -> [years |-> interval]
    [] freq = "MONTHLY" -> [months |-> interval]
    [] freq = "WEEKLY" -> [weeks |-> interval]
    [] freq = "DAILY" -> [days |-> interval]
    [] freq = "HOURLY" -> [hours |-> interval]
    [] freq = "MINUTELY" -> [minutes |-> interval]
    [] OTHER -> [seconds |-> interval]

advancePeriod(cursor, freq, interval) == addDuration(cursor, periodsOf(freq, interval))

\* how many whole intervals lie between the cursor and the target
periodsToSkip(cursor, target, freq, interval) ==
  CASE freq = "YEARLY" -> (target.year - cursor.year) \div interval
    [] freq = "MONTHLY" ->
         ((target.year - cursor.year) * 12 + (target.month - cursor.month)) \div interval
    [] freq = "WEEKLY" -> (calculateDifferenceInDays(cursor, target) \div 7) \div interval
    [] freq = "DAILY" -> calculateDifferenceInDays(cursor, target) \div interval
    [] OTHER -> 0

skipPeriods(cursor, freq, interval, skip) ==
  IF skip > 0 THEN addDuration(cursor, periodsOf(freq, skip * interval)) ELSE cursor

advanceCursorToDate(cursor, target, freq, interval) ==
  skipPeriods(cursor, freq, interval, periodsToSkip(cursor, target, freq, interval))

(***************************************************************************)
(* State                                                                   *)
(***************************************************************************)

VARIABLES
  options,        \* RRule._options, the sanitized rule
  maxIterations,  \* RRule._maxIterations (Undefined: the default applies)
  calls,          \* how many setter and setOptions calls the rule has received
  threw,          \* the message of the error the last call threw, "" when it returned
  gens,           \* the live generators created from the rule
  text,           \* the text produced by formatICS
  parsed,         \* the options produced by parseICS
  week,           \* the number getISOWeekOfYear returned, Undefined before the call
  copy            \* the rule clone() returned

vars == <<options, maxIterations, threw, calls, gens, text, parsed, week, copy>>

(***************************************************************************)
(* generateDates (generator.ts)                                            *)
(***************************************************************************)

DefaultMaxIterations == 10000

EmptyPeriodLimit == 1000

\* the largest number of occurrences a consumer pulls: all(limit), after(.., limit)
MaxOut == 4

\* a generator together with the consumer loop that drives it: seek is the
\* after argument of generateDates; the consumer skips what lies before from
\* (or at from, unless inclusive), stops after limit accepted occurrences
\* (limit 0: it has no limit) and breaks on the first occurrence past to (or
\* at to, unless inclusive)
NoGenerator ==
  [seek |-> NoDate, from |-> NoDate, to |-> NoDate, inclusive |-> TRUE, limit |-> 0,
   cursor |-> NoDate, emitted |-> 0, iterations |-> 0,
   consecutiveEmptyPeriods |-> 0, out |-> <<>>, status |-> "none", why |-> ""]

\* the prologue of generateDates, up to the while loop
generateDatesStart(opts, after) ==
  LET interval == IF opts.interval = Undefined THEN 1 ELSE opts.interval
      base == [NoGenerator EXCEPT !.seek = after, !.cursor = opts.dtstart, !.status = "running"]
  IN IF opts.dtstart.type = "none"
       THEN [base EXCEPT !.status = "threw", !.why = "dtstart"]
     ELSE IF interval = 0
       THEN [base EXCEPT !.status = "returned", !.why = "interval"]
     ELSE IF opts.until.type # "none" /\ compareDates(opts.until, opts.dtstart) < 0
       THEN [base EXCEPT !.status = "returned", !.why = "until"]
     ELSE IF after.type # "none" /\ compareDates(after, opts.dtstart) > 0
       THEN [base EXCEPT !.cursor = advanceCursorToDate(opts.dtstart, after, opts.freq, interval)]
     ELSE base

\* if (compareDates(date, dtstart) < 0) continue
beforeStart(date, opts) == compareDates(date, opts.dtstart) < 0

pastUntilNever(date, opts) == FALSE

\* if (until !== undefined && compareDates(date, until) > 0) return
pastUntil(date, opts) ==
  opts.until.type # "none" /\ compareDates(date, opts.until) > 0

\* the dates of the period the loop does not skip, in order
notBeforeStart(filtered, opts) ==
  SelectSeq(filtered, LAMBDA date : ~beforeStart(date, opts))

\* the place among the dates not skipped of the first one after until, one
\* past the last place when there is none
firstPastUntil(kept, opts) ==
  Least({i \in DOMAIN kept : pastUntil(kept[i], opts)} \cup {Len(kept) + 1})

\* the place of the date whose yield makes emitted reach count:
\* if (count !== undefined && emitted >= count) return
reachesCount(kept, opts, emitted) ==
  IF opts.count = Undefined THEN Len(kept) + 1
  ELSE IF opts.count - emitted < 1 THEN 1
  ELSE opts.count - emitted

\* the loop returns before the date at untilAt or after the date at countAt,
\* whichever it meets first, and runs to the end of the period otherwise
yieldUpTo(kept, untilAt, countAt) ==
  IF untilAt <= countAt /\ untilAt <= Len(kept)
    THEN [yielded |-> SubSeq(kept, 1, untilAt - 1), why |-> "until"]
  ELSE IF countAt <= Len(kept)
    THEN [yielded |-> SubSeq(kept, 1, countAt), why |-> "count"]
  ELSE [yielded |-> kept, why |-> ""]

yieldKept(kept, opts, emitted) ==
  yieldUpTo(kept, firstPastUntil(kept, opts), reachesCount(kept, opts, emitted))

\* the for loop over the filtered dates of one period: the dates yielded, and
\* why the generator returned inside the loop ("" when it did not)
yieldPeriod(filtered, opts, emitted) ==
  yieldKept(notBeforeStart(filtered, opts), opts, emitted)

\* candidates.flatMap((date) => expandByTime(date, options))
expandAllByTime(candidates, opts) ==
  Flatten([i \in DOMAIN candidates |-> expandByTime(candidates[i], opts)])

\* expansion, time expansion and BYSETPOS of the period at the cursor
filteredPeriod(cursor, opts) ==
  applyBySetPos(expandAllByTime(expandPeriod(cursor, opts), opts), opts)

\* the consumer's test in after() and next(): cmp < 0, or cmp = 0 and not
\* inclusive, skips the occurrence
Accepted(date, from, inclusive) ==
  \/ from.type = "none"
  \/ compareDates(date, from) > 0
  \/ compareDates(date, from) = 0 /\ inclusive

AcceptedOf(dates, from, inclusive) ==
  SelectSeq(dates, LAMBDA date : Accepted(date, from, inclusive))

\* the consumer's test in between(), before() and previous(): cmp > 0, or
\* cmp = 0 and not inclusive, breaks out of the loop
pastEnd(date, to, inclusive) ==
  /\ to.type # "none"
  /\ \/ compareDates(date, to) > 0
     \/ compareDates(date, to) = 0 /\ ~inclusive

\* the place of the limit-th accepted date, `last` when fewer are accepted
placeOfLimit(accepted, last, limit) ==
  IF Cardinality(accepted) < limit THEN last
  ELSE CHOOSE i \in accepted : Cardinality({j \in accepted : j <= i}) = limit

\* if (limit && result.length >= limit) break: the place of the occurrence
\* after which the consumer has its limit, one past the last place when it
\* has no limit or has not reached it
limitPlace(dates, from, inclusive, limit) ==
  IF limit <= 0 THEN Len(dates) + 1
  ELSE placeOfLimit({i \in DOMAIN dates : Accepted(dates[i], from, inclusive)},
                    Len(dates) + 1, limit)

\* the place of the first occurrence the consumer does not skip and that
\* lies past its end, one past the last place when there is none
breakPlace(dates, from, to, inclusive) ==
  Least({i \in DOMAIN dates : Accepted(dates[i], from, inclusive)
                                /\ pastEnd(dates[i], to, inclusive)}
        \cup {Len(dates) + 1})

\* the place of the occurrence on which the consumer leaves its loop
stopPlace(dates, gen) ==
  Least({limitPlace(dates, gen.from, gen.inclusive, gen.limit),
         breakPlace(dates, gen.from, gen.to, gen.inclusive)})

\* the consumer breaks out of its loop, which closes the generator
closeAt(gen, taken) ==
  [gen EXCEPT !.out = taken, !.emitted = gen.emitted + (Len(taken) - Len(gen.out)),
              !.status = "closed", !.why = "limit"]

\* the end of one turn of the while loop: the period was yielded in full;
\* the generator returns when the loop over the period returned or when the
\* rule proved empty, and moves on to the next period otherwise
endOfPeriod(gen, opts, period, emitted, empties) ==
  IF period.why # ""
    THEN [gen EXCEPT !.out = gen.out \o period.yielded, !.emitted = emitted,
                     !.status = "returned", !.why = period.why]
  ELSE IF empties >= EmptyPeriodLimit /\ emitted = 0
    THEN [gen EXCEPT !.consecutiveEmptyPeriods = empties,
                     !.status = "returned", !.why = "empty"]
  ELSE [gen EXCEPT !.out = gen.out \o period.yielded, !.emitted = emitted,
                   !.consecutiveEmptyPeriods = empties,
                   !.cursor = advancePeriod(gen.cursor, opts.freq,
                                            IF opts.interval = Undefined THEN 1 ELSE opts.interval)]

\* the consumer leaves its loop on the occurrence at place `stop`, or takes
\* the whole period when that place is past the last one
yieldOrClose(gen, opts, period, dates, stop) ==
  IF stop <= Len(dates)
    THEN closeAt(gen, SubSeq(dates, 1, stop))
    ELSE endOfPeriod(gen, opts, period, gen.emitted + Len(period.yielded),
                     IF period.yielded # <<>> THEN 0 ELSE gen.consecutiveEmptyPeriods + 1)

\* the dates the period yields reach the consumer one by one
yieldTo(gen, opts, period) ==
  yieldOrClose(gen, opts, period, gen.out \o period.yielded,
               stopPlace(gen.out \o period.yielded, gen))

\* one iteration of the while loop of generateDates, pulled by its consumer
generateDatesStep(gen, opts, maxIter) ==
  IF gen.iterations > (IF maxIter = Undefined THEN DefaultMaxIterations ELSE maxIter)
    THEN [gen EXCEPT !.iterations = gen.iterations + 1,
                     !.status = "threw", !.why = "maxIterations"]
    ELSE [yieldTo(gen, opts, yieldPeriod(filteredPeriod(gen.cursor, opts), opts, gen.emitted))
            EXCEPT !.iterations = gen.iterations + 1]

\* for (const date of this) in all(limit)
iterate(opts, limit) ==
  [generateDatesStart(opts, NoDate) EXCEPT !.limit = limit]

\* the loop of after(date, inclusive, limit) over generateDates(.., date)
afterLoop(opts, date, inclusive, limit) ==
  [generateDatesStart(opts, date) EXCEPT !.from = date, !.inclusive = inclusive, !.limit = limit]

\* the loop of next(date, inclusive) over the plain iterator
nextLoop(opts, date, inclusive) ==
  [generateDatesStart(opts, NoDate) EXCEPT !.from = date, !.inclusive = inclusive, !.limit = 1]

(***************************************************************************)
(* Rules and seek targets the generators are run on                        *)
(***************************************************************************)

EmptyOptions ==
  [freq |-> "YEARLY", dtstart |-> NoDate, interval |-> Undefined, count |-> Undefined,
   until |-> NoDate, wkst |-> "", bysetpos |-> <<>>, bymonth |-> <<>>, bymonthday |-> <<>>,
   byyearday |-> <<>>, byweekno |-> <<>>, byweekday |-> <<>>, byhour |-> <<>>,
   byminute |-> <<>>, bysecond |-> <<>>]

\* no clone has been made
NoCopy == [made |-> FALSE, options |-> EmptyOptions, maxIterations |-> Undefined, threw |-> ""]

\* validateBySetPos (sanitize.ts)
validateBySetPos(p) ==
  \/ Len(p.bysetpos) = 0
  \/ Len(p.bymonth) > 0
  \/ Len(p.bymonthday) > 0
  \/ Len(p.byyearday) > 0
  \/ Len(p.byweekday) > 0
  \/ Len(p.byweekno) > 0
  \/ Len(p.byhour) > 0
  \/ Len(p.byminute) > 0
  \/ Len(p.bysecond) > 0

\* the largest COUNT of the rules explored
MaxCount == 2

DateStarts == {CalendarDate(2024, 1, 31), CalendarDateTime(2024, 2, 29, 9, 0, 0)}

UntilFor(o) ==
  IF o.freq = "YEARLY" THEN addDuration(o.dtstart, [days |-> 800])
  ELSE IF o.freq \in {"MONTHLY", "WEEKLY", "DAILY"} THEN addDuration(o.dtstart, [days |-> 45])
  ELSE addDuration(o.dtstart, [days |-> 1])

Terminated(o) ==
  {o, [o EXCEPT !.until = UntilFor(o)]} \cup {[o EXCEPT !.count = k] : k \in 1..MaxCount}

DateSelectors == {"bymonth", "bymonthday", "byyearday", "byweekno", "byweekday", "bysetpos"}

SelectorChoices ==
  [bymonth |-> {<<3>>, <<12, 2>>},
   bymonthday |-> {<<31>>, <<-1, 15>>},
   byyearday |-> {<<366>>, <<60, 1>>},
   byweekno |-> {<<53>>, <<-1, 1>>},
   byweekday |-> {<<Bare("MO")>>, <<Nth(-1, "FR"), Nth(1, "MO")>>, <<Bare("FR"), Nth(1, "FR")>>},
   bysetpos |-> {<<1, -1>>, <<-1>>}]

WithOne(o) ==
  UNION {{[o EXCEPT ![f] = v] : v \in SelectorChoices[f]} : f \in DateSelectors}

WithUpToTwo(o) ==
  {o} \cup UNION {WithOne(o1) : o1 \in WithOne(o)}

\* every frequency at date level, with up to two date-level selectors
DateRules ==
  UNION {Terminated(b) :
    b \in UNION {WithUpToTwo([EmptyOptions EXCEPT !.freq = f, !.dtstart = d]) :
           f \in {"YEARLY", "MONTHLY", "WEEKLY", "DAILY"}, d \in DateStarts}}

\* date-time rules with time selectors and date-level limiters
TimeStarts == {CalendarDateTime(2024, 2, 29, 9, 0, 0), CalendarDateTime(2024, 2, 29, 23, 40, 0)}

TimeRules ==
  UNION {Terminated([EmptyOptions EXCEPT !.freq = f, !.dtstart = d, !.byhour = h,
                                         !.byminute = m, !.bysecond = sec,
                                         !.bymonthday = md, !.byweekday = wd]) :
    f \in {"MONTHLY", "DAILY", "HOURLY", "MINUTELY", "SECONDLY"}, d \in TimeStarts,
    h \in {<<>>, <<10, 9>>}, m \in {<<>>, <<30>>}, sec \in {<<>>, <<15, 0>>},
    md \in {<<>>, <<1>>}, wd \in {<<>>, <<Bare("FR")>>}}

\* rules that are also queried with a seek target
SeekRules ==
  UNION {Terminated([EmptyOptions EXCEPT !.freq = f, !.dtstart = d, !.interval = i,
                                         !.bymonthday = by[1], !.byweekday = by[2]]) :
    f \in {"YEARLY", "MONTHLY", "WEEKLY", "DAILY"}, d \in DateStarts, i \in {Undefined, 2},
    by \in {<<<<>>, <<>>>>, <<<<-1, 15>>, <<>>>>, <<<<>>, <<Bare("MO")>>>>}}

TargetsFor(o) ==
  IF o.freq = "YEARLY"
    THEN {addDuration(o.dtstart, [days |-> 400]), addDuration(o.dtstart, [days |-> 800])}
    ELSE {addDuration(o.dtstart, [days |-> 10]), addDuration(o.dtstart, [days |-> 45])}

GenRules == {o \in DateRules \cup TimeRules : validateBySetPos(o)}

\* <<rule, seek target, inclusive>>; without a target only the plain iterator runs
NoSeek == {<<o, NoDate, TRUE>> : o \in GenRules}

Seeks ==
  UNION {{<<o, t, inc>> : t \in TargetsFor(o), inc \in BOOLEAN} : o \in SeekRules}

GenInputs == NoSeek \cup Seeks

(***************************************************************************)
(* Specification of the generators                                         *)
(***************************************************************************)

\* generator 1 is the iterator behind all(MaxOut); with a seek target,
\* generator 2 runs after(target, inclusive, MaxOut) and generator 3 runs
\* next(target, inclusive)
GenInit ==
  /\ \E in \in GenInputs :
       /\ options = in[1]
       /\ gens = [g \in 1..3 |->
                    IF g = 1 THEN iterate(in[1], MaxOut)
                    ELSE IF in[2].type = "none" THEN NoGenerator
                    ELSE IF g = 2 THEN afterLoop(in[1], in[2], in[3], MaxOut)
                    ELSE nextLoop(in[1], in[2], in[3])]
  /\ maxIterations = Undefined
  /\ threw = ""
  /\ calls = 0
  /\ week = Undefined
  /\ copy = NoCopy
  /\ text = <<>>
  /\ parsed = EmptyOptions

\* a query pulls generator g through one period; all(), after() and next()
\* are synchronous calls, so a query runs to its end before the next starts
Pull(g) ==
  /\ gens[g].status = "running"
  /\ \A h \in 1..(g - 1) : gens[h].status # "running"
  /\ gens' = [gens EXCEPT ![g] = generateDatesStep(gens[g], options, maxIterations)]
  /\ UNCHANGED <<options, maxIterations, threw, calls, text, parsed, week, copy>>

GenNext == \E g \in 1..3 : Pull(g)

GenSpec == GenInit /\ [][GenNext]_vars

(***************************************************************************)
(* Properties of the generators                                            *)
(***************************************************************************)

Stopped(g) == gens[g].status \in {"returned", "closed", "threw"}

\* the array a query returns once its loop has ended
ResultOf(g) == AcceptedOf(gens[g].out, gens[g].from, gens[g].inclusive)

\* C1: the sequence a generator emits is strictly increasing, whatever the
\* frequency, the selectors and the order of the selector values
C1_Monotonic ==
  \A g \in 1..3 : \A i \in 1..(Len(gens[g].out) - 1) :
    compareDates(gens[g].out[i], gens[g].out[i + 1]) < 0

\* C2: every element after(t, inclusive, limit) returns is an element of the
\* sequence the rule produces without seeking; the unseeked sequence is known
\* in full once the plain iterator has returned
C2_SeekAddsNothing ==
  (gens[1].status = "returned" /\ gens[2].status \in {"returned", "closed"})
    => Range(ResultOf(2)) \subseteq Range(gens[1].out)

\* C3: every occurrence e >= T of the unseeked sequence is also emitted by
\* the generator constructed with seek target T (once that generator has
\* ended, or has been stopped by its consumer beyond e)
C3_SeekSkipsNothing ==
  \A i \in 1..Len(gens[1].out) :
    LET e == gens[1].out[i]
    IN (/\ Stopped(2)
        /\ compareDates(e, gens[2].seek) >= 0
        /\ gens[2].status = "closed" =>
             \E j \in 1..Len(gens[2].out) : compareDates(gens[2].out[j], e) > 0)
         => Includes(gens[2].out, e)

\* C4: next(t, inclusive) returns the first element of after(t, inclusive),
\* and returns none exactly when after(t, inclusive) is empty
C4_NextIsFirstOfAfter ==
  (gens[2].status \in {"returned", "closed"} /\ gens[3].status \in {"returned", "closed"})
    => IF ResultOf(2) = <<>> THEN ResultOf(3) = <<>>
       ELSE ResultOf(3) = <<Head(ResultOf(2))>>

\* the reference meaning of a rule whose only selectors are the limiters
\* BYMONTH, BYMONTHDAY and bare BYDAY at DAILY or finer frequency: the
\* moments dtstart + j * interval that pass every limiter
IsLimiterRule(o) ==
  /\ o.freq \in {"DAILY", "HOURLY", "MINUTELY", "SECONDLY"}
  /\ o.byhour = <<>> /\ o.byminute = <<>> /\ o.bysecond = <<>> /\ o.bysetpos = <<>>
  /\ \A i \in DOMAIN o.byweekday : o.byweekday[i].bare

Moment(o, j) ==
  LET k == j * (IF o.interval = Undefined THEN 1 ELSE o.interval)
  IN CASE o.freq = "DAILY" -> addDuration(o.dtstart, [days |-> k])
       [] o.freq = "HOURLY" -> addDuration(o.dtstart, [hours |-> k])
       [] o.freq = "MINUTELY" -> addDuration(o.dtstart, [minutes |-> k])
       [] OTHER -> addDuration(o.dtstart, [seconds |-> k])

PassesLimiters(o, date) ==
  /\ o.bymonth = <<>> \/ Includes(o.bymonth, date.month)
  /\ o.bymonthday = <<>> \/ MonthDayMatches(o.bymonthday, date)
  /\ o.byweekday = <<>> \/ Includes(o.byweekday, Bare(getWeekday(date)))

\* how far the reference looks for matching moments
MatchHorizon == 1500

MatchesAtLeast(o, k) ==
  Cardinality({j \in 0..MatchHorizon : PassesLimiters(o, Moment(o, j))}) >= k

\* C5: with count = k and no until the sequence never has more than k
\* entries, and has exactly k whenever the rule matches at least k moments
C5_CountCardinality ==
  (options.count # Undefined /\ options.until.type = "none") =>
    /\ Len(gens[1].out) <= options.count
    /\ (gens[1].status = "returned" /\ IsLimiterRule(options)
          /\ MatchesAtLeast(options, options.count))
         => Len(gens[1].out) = options.count

\* C6: no emitted moment is before dtstart, and none is after until when
\* until is set
C6_AnchorRespect ==
  \A g \in 1..3 : \A i \in 1..Len(gens[g].out) :
    /\ compareDates(gens[g].out[i], options.dtstart) >= 0
    /\ options.until.type # "none" => compareDates(gens[g].out[i], options.until) <= 0

\* a generator has emitted up to until and returned on the first later date,
\* after skipping candidates of the first period that lie before dtstart
C6_Witness ==
  /\ options.until.type # "none"
  /\ gens[1].status = "returned" /\ gens[1].why = "until"
  /\ Len(gens[1].out) > 0
  /\ \E i \in DOMAIN filteredPeriod(options.dtstart, options) :
       compareDates(filteredPeriod(options.dtstart, options)[i], options.dtstart) < 0

(***************************************************************************)
(* Week numbers and set positions                                          *)
(***************************************************************************)

\* ISO 8601: a day belongs to the week, and to the week-numbering year, of
\* the Thursday of its Monday-based week
isoThursday(date) == addDays(date, 3 - getDayOfWeek(date))

isoWeekYear(date) == isoThursday(date).year

weekOfThursday(thursday) ==
  (toJulianDay(thursday) - toJulianDayOf(thursday.year, 1, 1)) \div 7 + 1

isoWeek(date) == weekOfThursday(isoThursday(date))

\* a year has 53 ISO weeks when its January 1 is a Thursday, or a Wednesday
\* in a leap year
isoWeeksIn(year) ==
  IF toJulianDayOf(year, 1, 1) % 7 = 3 THEN 53
  ELSE IF isLeapYear(year) /\ toJulianDayOf(year, 1, 1) % 7 = 2 THEN 53
  ELSE 52

InIsoWeek(date, n) ==
  /\ isoWeekYear(date) = date.year
  /\ isoWeek(date) = (IF n > 0 THEN n ELSE isoWeeksIn(date.year) + n + 1)

\* a YEARLY rule with the default week start whose only date selectors are
\* one week number and, possibly, weekdays
IsWeekNoRule(o) ==
  /\ o.freq = "YEARLY" /\ o.wkst = ""
  /\ Len(o.byweekno) = 1
  /\ Len(o.bymonth) = 0 /\ Len(o.bymonthday) = 0 /\ Len(o.byyearday) = 0
  /\ Len(o.bysetpos) = 0

\* C17: with YEARLY, wkst = MO and byweekno = [n], every emitted moment lies
\* in ISO 8601 week n of its own year (negative n counted from the year's
\* last ISO week), so BYWEEKNO=[53] emits only in years with 53 ISO weeks
C17_WeekNoIsIsoWeek ==
  IsWeekNoRule(options) =>
    \A i \in 1..Len(gens[1].out) : InIsoWeek(gens[1].out[i], options.byweekno[1])

\* the places of the sorted candidate set that the positions select
selectedPlaces(len, bysetpos) ==
  {(IF bysetpos[i] > 0 THEN bysetpos[i] ELSE len + bysetpos[i] + 1) : i \in DOMAIN bysetpos}
    \cap (1..len)

placeInOrder(places, k) ==
  CHOOSE p \in places : Cardinality({q \in places : q <= p}) = k

atPlaces(sorted, places) ==
  [k \in 1..Cardinality(places) |-> sorted[placeInOrder(places, k)]]

selectedOnce(sorted, bysetpos) == atPlaces(sorted, selectedPlaces(Len(sorted), bysetpos))

periodCandidates(cursor, opts) == expandAllByTime(expandPeriod(cursor, opts), opts)

\* C18: within the period at the cursor, BYSETPOS yields the elements of the
\* sorted candidate set at the places its positions select, each once
C18_SetPosSelectsOnce ==
  (gens[1].status = "running" /\ Len(options.bysetpos) > 0) =>
    applyBySetPos(periodCandidates(gens[1].cursor, options), options)
      = selectedOnce(SortDates(periodCandidates(gens[1].cursor, options)), options.bysetpos)

(***************************************************************************)
(* between and previous (rrule.ts)                                         *)
(***************************************************************************)

\* the loop of between(start, end, inclusive) over the plain iterator
betweenLoop(opts, start, end, inclusive) ==
  [generateDatesStart(opts, NoDate) EXCEPT !.from = start, !.to = end, !.inclusive = inclusive]

\* the loop of previous(date, inclusive) over the plain iterator
previousLoop(opts, date, inclusive) ==
  [generateDatesStart(opts, NoDate) EXCEPT !.to = date, !.inclusive = inclusive]

\* a rule whose periods are shorter than a day is queried only when none of
\* its selectors leaves periods empty
IsDenseRule(o) ==
  o.freq \in {"HOURLY", "MINUTELY", "SECONDLY"} =>
    /\ Len(o.bymonthday) = 0 /\ Len(o.byweekday) = 0
    /\ Len(o.byhour) = 0 /\ Len(o.byminute) = 0

\* rules that end by COUNT, so that the iterator without a limit returns
QueryRules ==
  {o \in SeekRules \cup TimeRules : o.count # Undefined /\ validateBySetPos(o) /\ IsDenseRule(o)}

\* the second the window of a query opens or closes, after dtstart
WindowSeconds == 10

WindowDays == 45

\* <<start, end>> of the windows a rule is queried with
WindowsFor(o) ==
  {<<o.dtstart, addDuration(o.dtstart, [seconds |-> WindowSeconds])>>,
   <<addDuration(o.dtstart, [seconds |-> WindowSeconds]),
     addDuration(o.dtstart, [days |-> WindowDays])>>,
   <<o.dtstart, addDuration(o.dtstart, [days |-> WindowDays])>>}

QueryInputs ==
  UNION {{<<o, w[1], w[2], inc>> : w \in WindowsFor(o), inc \in BOOLEAN} : o \in QueryRules}

\* generator 1 is the iterator behind all(), generator 2 runs
\* between(start, end, inclusive) and generator 3 runs previous(end, inclusive)
QueryInit ==
  /\ \E in \in QueryInputs :
       /\ options = in[1]
       /\ gens = [g \in 1..3 |->
                    IF g = 1 THEN iterate(in[1], 0)
                    ELSE IF g = 2 THEN betweenLoop(in[1], in[2], in[3], in[4])
                    ELSE previousLoop(in[1], in[3], in[4])]
  /\ maxIterations = Undefined
  /\ threw = ""
  /\ calls = 0
  /\ week = Undefined
  /\ copy = NoCopy
  /\ text = <<>>
  /\ parsed = EmptyOptions

QueryNext == \E g \in 1..3 : Pull(g)

QuerySpec == QueryInit /\ [][QueryNext]_vars

InWindow(date, start, end, inclusive) ==
  Accepted(date, start, inclusive) /\ ~pastEnd(date, end, inclusive)

WindowOf(dates, start, end, inclusive) ==
  SelectSeq(dates, LAMBDA date : InWindow(date, start, end, inclusive))

\* the array between() has pushed to once its loop has ended
betweenResult(gen) == WindowOf(gen.out, gen.from, gen.to, gen.inclusive)

lastOr(dates, none) == IF dates = <<>> THEN none ELSE dates[Len(dates)]

\* the value previous() holds in `result` once its loop has ended
previousResult(gen) == lastOr(WindowOf(gen.out, NoDate, gen.to, gen.inclusive), NoDate)

Latest(S) == CHOOSE e \in S : \A f \in S : compareDates(f, e) <= 0

latestOr(S, none) == IF S = {} THEN none ELSE Latest(S)

Ended(g) == gens[g].status \in {"returned", "closed"}

\* C19: between(a, b, inclusive) returns, in generation order, exactly the
\* occurrences e of the rule's sequence with a <= e <= b (a < e < b when
\* not inclusive)
C19_BetweenIsWindow ==
  (gens[1].status = "returned" /\ Ended(2)) =>
    betweenResult(gens[2])
      = WindowOf(gens[1].out, gens[2].from, gens[2].to, gens[2].inclusive)

\* C20: previous(t, inclusive) returns the greatest occurrence e of the
\* rule's sequence with e < t (e <= t when inclusive), and none when there
\* is no such occurrence
C20_PreviousIsGreatest ==
  (gens[1].status = "returned" /\ Ended(3)) =>
    previousResult(gens[3])
      = latestOr(Range(WindowOf(gens[1].out, NoDate, gens[3].to, gens[3].inclusive)), NoDate)

(***************************************************************************)
(* WEEKLY rules with an interval and a week start                          *)
(***************************************************************************)

MaxInterval == 3

WeeklyRules ==
  {[EmptyOptions EXCEPT !.freq = "WEEKLY", !.dtstart = d, !.interval = k, !.wkst = w,
                        !.byweekday = wd, !.count = c] :
     d \in DateStarts, k \in {Undefined} \cup 1..MaxInterval, w \in {"", "SU", "TH"},
     wd \in {<<>>, <<Bare("MO"), Bare("WE"), Bare("FR")>>, <<Bare("TU"), Bare("SU")>>,
             <<Nth(1, "SA"), Bare("SA"), Bare("MO")>>},
     c \in {Undefined} \cup 1..MaxCount}

WeeklyInit ==
  /\ \E o \in WeeklyRules :
       /\ options = o
       /\ gens = [g \in 1..3 |-> IF g = 1 THEN iterate(o, MaxOut) ELSE NoGenerator]
  /\ maxIterations = Undefined
  /\ threw = ""
  /\ calls = 0
  /\ week = Undefined
  /\ copy = NoCopy
  /\ text = <<>>
  /\ parsed = EmptyOptions

WeeklyNext == Pull(1)

WeeklySpec == WeeklyInit /\ [][WeeklyNext]_vars

\* the Julian day on which the week of a date starts, for a week start
weekStartDay(date, wkst) ==
  toJulianDay(date)
    - ((toJulianDay(date) - getWeekdayIndex(IF wkst = "" THEN "MO" ELSE wkst)) % 7)

intervalOf(o) == IF o.interval = Undefined THEN 1 ELSE o.interval

\* the week of the date starts a whole multiple of the interval, in weeks,
\* after the week of dtstart
InIntervalWeek(date, o) ==
  (weekStartDay(date, o.wkst) - weekStartDay(o.dtstart, o.wkst)) % (7 * intervalOf(o)) = 0

OnWeekdayOf(date, o) ==
  IF Len(o.byweekday) = 0 THEN getWeekday(date) = getWeekday(o.dtstart)
  ELSE \E i \in DOMAIN o.byweekday : o.byweekday[i].weekday = getWeekday(date)

\* the days from dtstart on that a WEEKLY rule is to emit, in ascending
\* order, far enough to hold MaxOut of them
weeklyExpected(o) ==
  SelectSeq([i \in 1..(7 * intervalOf(o) * (MaxOut + 1)) |-> addDays(o.dtstart, i - 1)],
            LAMBDA date : InIntervalWeek(date, o) /\ OnWeekdayOf(date, o))

IsPrefixOf(dates, all) ==
  /\ Len(dates) <= Len(all)
  /\ \A i \in DOMAIN dates : dates[i] = all[i]

emittedWhenStopped(o) ==
  IF o.count # Undefined /\ o.count < MaxOut THEN o.count ELSE MaxOut

\* C21: a WEEKLY rule with interval k and week start wkst emits, in ascending
\* order, exactly the days from dtstart on whose weekday is in byweekday (the
\* weekday of dtstart when byweekday is empty) and whose week, per wkst,
\* starts a whole multiple of k weeks after the week of dtstart
C21_WeeklyIntervalWeeks ==
  /\ IsPrefixOf(gens[1].out, weeklyExpected(options))
  /\ gens[1].status \in {"returned", "closed"} => Len(gens[1].out) = emittedWhenStopped(options)

\* every second week, weeks starting on Sunday: the week of dtstart holds no
\* day at or after dtstart, and the days emitted are of two later weeks
C21_Witness ==
  /\ options.interval = 2 /\ options.wkst = "SU"
  /\ options.byweekday = <<Bare("TU"), Bare("SU")>>
  /\ gens[1].status = "closed"
  /\ Len(gens[1].out) = MaxOut
  /\ weekStartDay(gens[1].out[1], "SU") > weekStartDay(options.dtstart, "SU")
  /\ weekStartDay(gens[1].out[MaxOut], "SU") > weekStartDay(gens[1].out[1], "SU")

(***************************************************************************)
(* Two generators of one rule, pulled in any order                         *)
(***************************************************************************)

\* rules whose generator ends within a few periods
PairRules ==
  {o \in SeekRules :
     /\ validateBySetPos(o)
     /\ o.freq \in {"WEEKLY", "DAILY"} => Len(o.bymonthday) = 0
     /\ o.freq = "DAILY" => Len(o.byweekday) = 0}

\* generators 1 and 2 are two iterators created from the same rule
PairInit ==
  /\ \E o \in PairRules :
       /\ options = o
       /\ gens = [g \in 1..3 |-> IF g <= 2 THEN iterate(o, MaxOut) ELSE NoGenerator]
  /\ maxIterations = Undefined
  /\ threw = ""
  /\ calls = 0
  /\ week = Undefined
  /\ copy = NoCopy
  /\ text = <<>>
  /\ parsed = EmptyOptions

\* a step in which generator g reads the cursor of the other generator
PullSharedCursor(g) ==
  /\ gens[g].status = "running"
  /\ gens' = [gens EXCEPT ![g] =
                generateDatesStep([gens[g] EXCEPT !.cursor = gens[3 - g].cursor],
                                  options, maxIterations)]
  /\ UNCHANGED <<options, maxIterations, threw, calls, text, parsed, week, copy>>

\* either consumer pulls its generator through one period, whatever the
\* other one has done: every variable of generateDates is local to the call
PullEither(g) ==
  /\ gens[g].status = "running"
  /\ gens' = [gens EXCEPT ![g] = generateDatesStep(gens[g], options, maxIterations)]
  /\ UNCHANGED <<options, maxIterations, threw, calls, text, parsed, week, copy>>

PairNext == \E g \in 1..2 : PullEither(g)

PairSpec == PairInit /\ [][PairNext]_vars

RECURSIVE aloneAfter(_, _)
\* the generator of a rule after n periods, when nothing else runs
aloneAfter(opts, n) ==
  IF n = 0 THEN iterate(opts, MaxOut)
  ELSE generateDatesStep(aloneAfter(opts, n - 1), opts, Undefined)

OrdinalRules ==
  {[EmptyOptions EXCEPT !.freq = "MONTHLY", !.dtstart = d, !.interval = k,
                        !.byweekday = <<Nth(n, w)>>, !.count = c] :
     d \in DateStarts, k \in {Undefined, 2}, n \in {1, 2, 5, -1, -5},
     w \in {"MO", "TH", "FR"}, c \in {Undefined} \cup 1..MaxCount}

OrdinalInit ==
  /\ \E o \in OrdinalRules :
       /\ options = o
       /\ gens = [g \in 1..3 |-> IF g = 1 THEN iterate(o, MaxOut) ELSE NoGenerator]
  /\ maxIterations = Undefined
  /\ threw = ""
  /\ calls = 0
  /\ week = Undefined
  /\ copy = NoCopy
  /\ text = <<>>
  /\ parsed = EmptyOptions

OrdinalNext == Pull(1)

OrdinalSpec == OrdinalInit /\ [][OrdinalNext]_vars

\* the day of the month of the first weekday w of a month
firstDayOn(year, month, w) ==
  1 + ((getWeekdayIndex(w) + 7 - (toJulianDayOf(year, month, 1) % 7)) % 7)

lastDayOn(first, daysInMonth) == first + 7 * ((daysInMonth - first) \div 7)

\* the day of the month of the n-th weekday w (from the end when n < 0);
\* a day outside the month when the month has no such weekday
ordinalDay(year, month, w, n) ==
  IF n > 0 THEN firstDayOn(year, month, w) + 7 * (n - 1)
  ELSE lastDayOn(firstDayOn(year, month, w), getDaysInMonthOf(year, month)) + 7 * (n + 1)

HasOrdinalDay(year, month, w, n) ==
  ordinalDay(year, month, w, n) \in 1..getDaysInMonthOf(year, month)

\* the months a generator has been through, counted from year 0
visitedMonths(o, gen) ==
  {o.dtstart.year * 12 + (o.dtstart.month - 1) + j * intervalOf(o) : j \in 0..(gen.iterations - 1)}

emittedIn(dates, months0) ==
  SelectSeq(dates, LAMBDA date : date.year * 12 + (date.month - 1) = months0)

\* dtstart moved to a day of the month
dtstartOn(o, months0, day) ==
  [o.dtstart EXCEPT !.year = months0 \div 12, !.month = (months0 % 12) + 1, !.day = day]

\* what the month is to emit: its ordinal weekday when it has one that is
\* not before dtstart
ordinalExpected(o, months0, w, n) ==
  IF /\ HasOrdinalDay(months0 \div 12, (months0 % 12) + 1, w, n)
     /\ compareDates(dtstartOn(o, months0, ordinalDay(months0 \div 12, (months0 % 12) + 1, w, n)),
                     o.dtstart) >= 0
    THEN <<dtstartOn(o, months0, ordinalDay(months0 \div 12, (months0 % 12) + 1, w, n))>>
    ELSE <<>>

IsMonthDayWeekdayRule(o) ==
  /\ o.freq = "MONTHLY"
  /\ Len(o.bymonthday) > 0 /\ Len(o.byweekday) > 0
  /\ Len(o.bysetpos) = 0

\* the day of the month is named by bymonthday, negative values counted
\* from the end of that month
OnMonthDayOf(date, bymonthday) ==
  \E i \in DOMAIN bymonthday :
    \/ bymonthday[i] = date.day
    \/ bymonthday[i] < 0 /\ getDaysInMonthOf(date.year, date.month) + bymonthday[i] + 1 = date.day

\* the date is on the weekday of the term and, for an ordinal term, is the
\* n-th such weekday of its month
OnWeekdayTerm(date, term) ==
  /\ getWeekday(date) = term.weekday
  /\ term.bare \/ ordinalDay(date.year, date.month, term.weekday, term.n) = date.day

\* C24: with MONTHLY and both bymonthday and byweekday, the day of the month
\* of every emitted moment is in bymonthday (normalised against the length
\* of its month) and matches a byweekday term, so a month in which no
\* bymonthday value is a day that matches emits nothing
C24_MonthDayAndWeekday ==
  IsMonthDayWeekdayRule(options) =>
    \A g \in 1..3 : \A i \in 1..Len(gens[g].out) :
      /\ OnMonthDayOf(gens[g].out[i], options.bymonthday)
      /\ \E t \in DOMAIN options.byweekday : OnWeekdayTerm(gens[g].out[i], options.byweekday[t])

IsPlainRule(o) ==
  /\ o.freq \in {"MONTHLY", "YEARLY"}
  /\ Len(o.bymonth) = 0 /\ Len(o.bymonthday) = 0 /\ Len(o.byyearday) = 0
  /\ Len(o.byweekno) = 0 /\ Len(o.byweekday) = 0 /\ Len(o.bysetpos) = 0
  /\ Len(o.byhour) = 0 /\ Len(o.byminute) = 0 /\ Len(o.bysecond) = 0

\* C25: a MONTHLY or YEARLY rule without selectors emits only moments on
\* the day of the month of dtstart (and, for YEARLY, in its month): a
\* period without that day emits nothing and moves no later occurrence
C25_PlainKeepsDay ==
  IsPlainRule(options) =>
    \A g \in 1..3 : \A i \in 1..Len(gens[g].out) :
      /\ gens[g].out[i].day = options.dtstart.day
      /\ options.freq = "YEARLY" => gens[g].out[i].month = options.dtstart.month

\* a YEARLY rule with BYYEARDAY and without an ordinal weekday term
IsYearDayRule(o) ==
  /\ o.freq = "YEARLY"
  /\ Len(o.byyearday) > 0
  /\ \A i \in DOMAIN o.byweekday : o.byweekday[i].bare
  /\ Len(o.bysetpos) = 0

dayOfYear(date) == toJulianDay(date) - toJulianDayOf(date.year, 1, 1) + 1

daysInYear(year) == IF isLeapYear(year) THEN 366 ELSE 365

OnYearDayOf(date, byyearday) ==
  \E i \in DOMAIN byyearday :
    \/ byyearday[i] = dayOfYear(date)
    \/ byyearday[i] < 0 /\ daysInYear(date.year) + byyearday[i] + 1 = dayOfYear(date)

\* C26: with YEARLY, no ordinal weekday term and a non-empty byyearday, the
\* candidates of a year are the days byyearday names (in the months of
\* bymonth when given), whether or not byweekno is given
C26_YearDayTakesPrecedence ==
  IsYearDayRule(options) =>
    \A g \in 1..3 : \A i \in 1..Len(gens[g].out) :
      /\ OnYearDayOf(gens[g].out[i], options.byyearday)
      /\ Len(options.bymonth) > 0 => Includes(options.bymonth, gens[g].out[i].month)

(***************************************************************************)
(* A rule with UNTIL and the same rule without it                          *)
(***************************************************************************)

UntilChoices(o) ==
  {addDuration(o.dtstart, [seconds |-> WindowSeconds]),
   addDuration(o.dtstart, [days |-> 1]),
   addDuration(o.dtstart, [days |-> WindowDays])}

UntilRules ==
  UNION {{[o EXCEPT !.until = u] : u \in UntilChoices(o)} :
           o \in {r \in SeekRules \cup TimeRules :
                    /\ r.count = Undefined /\ r.until.type = "none"
                    /\ validateBySetPos(r) /\ IsDenseRule(r)}}

withoutUntil(o) == [o EXCEPT !.until = NoDate]

\* generator 1 iterates the rule, generator 2 the rule with until removed
UntilInit ==
  /\ \E o \in UntilRules :
       /\ options = o
       /\ gens = [g \in 1..3 |->
                    IF g = 1 THEN iterate(o, MaxOut)
                    ELSE IF g = 2 THEN iterate(withoutUntil(o), MaxOut)
                    ELSE NoGenerator]
  /\ maxIterations = Undefined
  /\ threw = ""
  /\ calls = 0
  /\ week = Undefined
  /\ copy = NoCopy
  /\ text = <<>>
  /\ parsed = EmptyOptions

PullWithout(g) ==
  /\ gens[g].status = "running"
  /\ \A h \in 1..(g - 1) : gens[h].status # "running"
  /\ gens' = [gens EXCEPT ![g] =
                generateDatesStep(gens[g], IF g = 2 THEN withoutUntil(options) ELSE options,
                                  maxIterations)]
  /\ UNCHANGED <<options, maxIterations, threw, calls, text, parsed, week, copy>>

UntilNext == \E g \in 1..2 : PullWithout(g)

UntilSpec == UntilInit /\ [][UntilNext]_vars

notAfter(dates, until) == SelectSeq(dates, LAMBDA date : compareDates(date, until) <= 0)

\* C27: the sequence of a rule with until = U is the sequence of the rule
\* without until restricted to the moments <= U: the moments <= U among the
\* first MaxOut of the rule without until are the first ones of the rule
C27_UntilLosesNothing ==
  (gens[1].status \in {"returned", "closed"} /\ gens[2].status \in {"returned", "closed"}) =>
    IsPrefixOf(notAfter(gens[2].out, options.until), gens[1].out)

(***************************************************************************)
(* getISOWeekOfYear (date.ts)                                              *)
(***************************************************************************)

\* date.add({ days: 4 - getDayOfWeek(date) }), getStartOfYear of it, the
\* whole days between the two, and the week they make
getISOWeekOfYear(date) ==
  calculateDifferenceInDays(getStartOfYear(addDuration(date, [days |-> 4 - getDayOfWeek(date)])),
                            addDuration(date, [days |-> 4 - getDayOfWeek(date)])) \div 7 + 1

FirstWeekYear == 2020

WeekYears == 8

\* the days from December 20 to January 14 around the turn of each year,
\* as dates and as date-times
WeekDates ==
  UNION {{addDays(CalendarDate(y, 12, 20), k), addDays(CalendarDateTime(y, 12, 20, 9, 0, 0), k)} :
           y \in FirstWeekYear..(FirstWeekYear + WeekYears - 1), k \in 0..25}

WeekInit ==
  /\ \E d \in WeekDates : options = [EmptyOptions EXCEPT !.dtstart = d]
  /\ gens = [g \in 1..3 |-> NoGenerator]
  /\ maxIterations = Undefined
  /\ threw = ""
  /\ calls = 0
  /\ week = Undefined
  /\ copy = NoCopy
  /\ text = <<>>
  /\ parsed = EmptyOptions

\* getISOWeekOfYear(date) on the date held in dtstart
weekOf ==
  /\ week = Undefined
  /\ week' = getISOWeekOfYear(options.dtstart)
  /\ UNCHANGED <<options, maxIterations, threw, calls, gens, text, parsed, copy>>

WeekNext == weekOf

WeekSpec == WeekInit /\ [][WeekNext]_vars

\* C29: getISOWeekOfYear(d) is the ISO 8601 week number of d, the week of
\* the Thursday of the Monday-based week of d, and lies in 1..53
C29_IsoWeekOfYear ==
  week # Undefined => (week = isoWeek(options.dtstart) /\ week \in 1..53)

(***************************************************************************)
(* The iteration limit and the empty-period detector                       *)
(***************************************************************************)

\* a rule without COUNT and UNTIL that yields in every period
EndlessRule == [EmptyOptions EXCEPT !.freq = "DAILY", !.dtstart = CalendarDate(2025, 1, 1)]

\* rules whose selectors name days that no month they name has
ImpossibleRules ==
  {[EmptyOptions EXCEPT !.freq = "MONTHLY", !.dtstart = CalendarDate(2025, 1, 1),
                        !.bymonthday = <<31>>, !.bymonth = <<4>>],
   [EmptyOptions EXCEPT !.freq = "MONTHLY", !.dtstart = CalendarDate(2025, 1, 1),
                        !.bymonthday = <<31>>, !.bymonth = <<4, 6, 9, 11>>, !.count = 10],
   [EmptyOptions EXCEPT !.freq = "MONTHLY", !.dtstart = CalendarDateTime(2024, 2, 29, 9, 0, 0),
                        !.bymonthday = <<30, 31>>, !.bymonth = <<2>>]}

\* the largest of the small values of maxIterations explored
MaxSmallLimit == 3

\* values the maxIterations setter accepts: undefined, or a number above 0
MaxIterationsChoices ==
  {Undefined} \cup (1..MaxSmallLimit)
    \cup ((EmptyPeriodLimit - 2)..(EmptyPeriodLimit + 1))

\* <<rule, maxIterations, limit of all()>>; limit 0 is all() without a limit
LimitInputs ==
  {<<o, n, 0>> : o \in ImpossibleRules, n \in MaxIterationsChoices}
    \cup {<<EndlessRule, n, lim>> : n \in 1..MaxSmallLimit, lim \in {0, MaxOut}}

\* rule.maxIterations = n; rule.all(limit)
LimitInit ==
  /\ \E in \in LimitInputs :
       /\ options = in[1]
       /\ maxIterations = in[2]
       /\ gens = [g \in 1..3 |-> IF g = 1 THEN iterate(in[1], in[3]) ELSE NoGenerator]
  /\ threw = ""
  /\ calls = 0
  /\ week = Undefined
  /\ copy = NoCopy
  /\ text = <<>>
  /\ parsed = EmptyOptions

LimitNext == Pull(1)

LimitSpec == LimitInit /\ [][LimitNext]_vars

\* the periods a generator has expanded: the loop counts an iteration before
\* it compares, so the iteration that throws expands nothing
expansionsOf(gen) ==
  gen.iterations - (IF gen.status = "threw" /\ gen.why = "maxIterations" THEN 1 ELSE 0)

\* C11: with maxIterations = N (10,000 when not set) a generator performs at
\* most N iterations; it never expands an (N+1)-th period
C11_AtMostMaxIterations ==
  \A g \in 1..3 :
    expansionsOf(gens[g])
      <= (IF maxIterations = Undefined THEN DefaultMaxIterations ELSE maxIterations)

\* no date ever matches: the rule is MONTHLY with BYMONTH and positive
\* BYMONTHDAY only, and every day named exceeds every month named, even
\* February of a leap year
NeverMatches(o) ==
  /\ o.freq = "MONTHLY"
  /\ o.bymonth # <<>> /\ o.bymonthday # <<>>
  /\ o.byweekday = <<>> /\ o.bysetpos = <<>>
  /\ \A i \in DOMAIN o.bymonth : \A j \in DOMAIN o.bymonthday :
       /\ o.bymonthday[j] > 0
       /\ o.bymonthday[j] > getDaysInMonthOf(2024, o.bymonth[i])

\* C12: a rule that can never match terminates normally with an empty
\* sequence after 1,000 consecutive empty periods and raises no
\* MaxIterationsExceeded, whatever permitted value maxIterations has
C12_ImpossibleRuleEndsEmpty ==
  NeverMatches(options) =>
    /\ gens[1].out = <<>>
    /\ gens[1].status # "threw"
    /\ Stopped(1) => /\ gens[1].why = "empty"
                     /\ gens[1].consecutiveEmptyPeriods = EmptyPeriodLimit

(***************************************************************************)
(* Sanitizing (sanitize.ts, utils.ts)                                      *)
(*                                                                         *)
(* An operation that can throw yields [error |-> message, value |-> v],    *)
(* error "" meaning that it returned v.  An absent list is the empty one.  *)
(***************************************************************************)

Returned(v) == [error |-> "", value |-> v]

Thrown(message, v) == [error |-> message, value |-> v]

CountUntilError == "COUNT and UNTIL are mutually exclusive"

UntilError == "UNTIL must be greater than or equal to DTSTART"

BySetPosError == "BYSETPOS must be used with another BYxxx rule"

FrequencyError == "Invalid frequency"

MaxIterationsError == "maxIterations must be greater than 0"

\* [...new Set(value)]: the first occurrence of every value, in order
unique(value) ==
  LET first == {i \in DOMAIN value : \A j \in 1..(i - 1) : value[j] # value[i]}
      at == Ascending(first)
  IN [k \in DOMAIN at |-> value[at[k]]]

isFrequency(value) == value \in Frequencies

isWeekdayName(value) == Includes(WEEKDAYS, value)

\* sanitizeFrequency: "" is the absent frequency
sanitizeFrequency(value) ==
  IF value = "" THEN Returned("YEARLY")
  ELSE IF ~isFrequency(value) THEN Thrown(FrequencyError, value)
  ELSE Returned(value)

\* sanitizeNumber(value, min) as the class calls it: no max, allowZero false
sanitizeNumber(value, min) ==
  IF value = Undefined \/ value = 0 THEN Undefined
  ELSE IF value < min THEN min
  ELSE value

\* sanitizeNumberArray on numbers written in units of 1/unit, so that
\* numbers with a fractional part can be written; the filter compares the
\* numbers as they are and nothing rounds them
sanitizeNumbersIn(unit, values, min, max, allowZero) ==
  unique(SelectSeq(values, LAMBDA value :
    /\ allowZero \/ value # 0
    /\ value <= max * unit
    /\ value >= min * unit))

sanitizeNumberArray(values, min, max, allowZero) ==
  sanitizeNumbersIn(1, values, min, max, allowZero)

sanitizeUntilDate(value, start) ==
  IF start.type = "none" THEN Returned(value)
  ELSE IF value.type # "none" /\ compareDates(value, start) < 0 THEN Thrown(UntilError, value)
  ELSE Returned(value)

(***************************************************************************)
(* Strings: a string of the program is the sequence of its characters      *)
(***************************************************************************)

DigitChars == <<"0", "1", "2", "3", "4", "5", "6", "7", "8", "9">>

UpperChars ==
  <<"A", "B", "C", "D", "E", "F", "G", "H", "I", "J", "K", "L", "M",
    "N", "O", "P", "Q", "R", "S", "T", "U", "V", "W", "X", "Y", "Z">>

LowerChars ==
  <<"a", "b", "c", "d", "e", "f", "g", "h", "i", "j", "k", "l", "m",
    "n", "o", "p", "q", "r", "s", "t", "u", "v", "w", "x", "y", "z">>

isDigit(c) == Includes(DigitChars, c)

isUpper(c) == Includes(UpperChars, c)

digitOf(c) == (CHOOSE i \in DOMAIN DigitChars : DigitChars[i] = c) - 1

\* the characters of the names of the weekdays and of the frequencies
Chars(name) ==
  CASE name = "MO" -> <<"M", "O">>
    [] name = "TU" -> <<"T", "U">>
    [] name = "WE" -> <<"W", "E">>
    [] name = "TH" -> <<"T", "H">>
    [] name = "FR" -> <<"F", "R">>
    [] name = "SA" -> <<"S", "A">>
    [] name = "SU" -> <<"S", "U">>
    [] name = "YEARLY" -> <<"Y", "E", "A", "R", "L", "Y">>
    [] name = "MONTHLY" -> <<"M", "O", "N", "T", "H", "L", "Y">>
    [] name = "WEEKLY" -> <<"W", "E", "E", "K", "L", "Y">>
    [] name = "DAILY" -> <<"D", "A", "I", "L", "Y">>
    [] name = "HOURLY" -> <<"H", "O", "U", "R", "L", "Y">>
    [] name = "MINUTELY" -> <<"M", "I", "N", "U", "T", "E", "L", "Y">>
    [] name = "SECONDLY" -> <<"S", "E", "C", "O", "N", "D", "L", "Y">>

\* value.toUpperCase()
toUpperCase(value) ==
  [i \in DOMAIN value |->
     IF Includes(LowerChars, value[i])
       THEN UpperChars[CHOOSE k \in DOMAIN LowerChars : LowerChars[k] = value[i]]
       ELSE value[i]]

\* value.trim()
trim(value) ==
  LET solid == {i \in DOMAIN value : value[i] # " "}
  IN IF solid = {} THEN <<>>
     ELSE SubSeq(value, CHOOSE i \in solid : \A j \in solid : i <= j,
                        CHOOSE i \in solid : \A j \in solid : i >= j)

\* value.split(separator)
split(value, separator) ==
  LET cuts == <<0>> \o Ascending({i \in DOMAIN value : value[i] = separator})
                    \o <<Len(value) + 1>>
  IN [k \in 1..(Len(cuts) - 1) |-> SubSeq(value, cuts[k] + 1, cuts[k + 1] - 1)]

\* value.slice(start, end), positions counted from 0
slice(value, start, end) ==
  LET stop == IF end < Len(value) THEN end ELSE Len(value)
  IN IF stop <= start THEN <<>> ELSE SubSeq(value, start + 1, stop)

\* items.join(separator)
join(items, separator) ==
  Flatten([k \in DOMAIN items |-> IF k = 1 THEN items[k] ELSE <<separator>> \o items[k]])

\* String(value) of an integer
RECURSIVE decimal(_)
decimal(value) ==
  IF value < 0 THEN <<"-">> \o decimal(0 - value)
  ELSE IF value < 10 THEN <<DigitChars[value + 1]>>
  ELSE decimal(value \div 10) \o <<DigitChars[(value % 10) + 1]>>

\* String(value).padStart(length, '0')
padZero(value, length) ==
  LET digits == decimal(value)
  IN [k \in 1..(IF length > Len(digits) THEN length - Len(digits) ELSE 0) |-> "0"] \o digits

(***************************************************************************)
(* Parsing of values (parse.ts)                                            *)
(***************************************************************************)

NaN == [nan |-> TRUE, value |-> 0]

Number(n) == [nan |-> FALSE, value |-> n]

RECURSIVE digitsValue(_)
digitsValue(digits) ==
  IF digits = <<>> THEN 0
  ELSE digitsValue(SubSeq(digits, 1, Len(digits) - 1)) * 10 + digitOf(digits[Len(digits)])

\* the value from its first character that is not a blank
skipBlanks(value) ==
  IF \A i \in DOMAIN value : value[i] = " " THEN <<>>
  ELSE SubSeq(value, Least({i \in DOMAIN value : value[i] # " "}), Len(value))

isSigned(body) == body # <<>> /\ body[1] \in {"+", "-"}

unsigned(body) == IF isSigned(body) THEN Tail(body) ELSE body

\* the longest run of digits the characters start with
leadingDigits(rest) ==
  SubSeq(rest, 1, Least({i \in DOMAIN rest : ~isDigit(rest[i])} \cup {Len(rest) + 1}) - 1)

signedValue(body, run) ==
  IF run = <<>> THEN NaN
  ELSE Number(IF isSigned(body) /\ body[1] = "-" THEN 0 - digitsValue(run) ELSE digitsValue(run))

parseIntegerFrom(body) == signedValue(body, leadingDigits(unsigned(body)))

\* Number.parseInt(value, 10): leading blanks, a sign, then the longest run
\* of digits; NaN when there is no digit
parseInteger(value) == parseIntegerFrom(skipBlanks(value))

positiveOf(number) ==
  IF number.nan \/ number.value <= 0
    THEN Thrown("Invalid positive integer", Undefined)
    ELSE Returned(number.value)

parsePositiveInteger(value) == positiveOf(parseInteger(value))

trimAll(items) == [k \in DOMAIN items |-> trim(items[k])]

\* parseList: the trimmed, non-empty items
parseList(value, separator) ==
  IF trim(value) = <<>> THEN <<>>
  ELSE SelectSeq(trimAll(split(value, separator)), LAMBDA item : Len(item) > 0)

parseIntegers(items) == [k \in DOMAIN items |-> parseInteger(items[k])]

numberValues(numbers) == [k \in DOMAIN numbers |-> numbers[k].value]

parseIntegerList(value, separator) ==
  numberValues(SelectSeq(parseIntegers(parseList(value, separator)),
                         LAMBDA number : ~number.nan))

\* the names among `names` that are spelled `value`
Named(names, value) == {name \in names : Chars(name) = value}

\* /^\d{8}(?:T\d{6}Z?)?$/
isICSDateFormat(value) ==
  /\ Len(value) \in {8, 15, 16}
  /\ \A i \in 1..8 : isDigit(value[i])
  /\ Len(value) > 8 => /\ value[9] = "T"
                       /\ \A i \in 10..15 : isDigit(value[i])
  /\ Len(value) = 16 => value[16] = "Z"

\* parseDate rejects a year, month or day out of range
isBadDate(year, month, day) ==
  \/ year < 1
  \/ month \notin 1..12
  \/ day < 1
  \/ day > getDaysInMonthOf(year, month)

\* parseDateTime and parseAbsolute reject a time field out of range
isBadTime(hour, minute, second) == hour > 23 \/ minute > 59 \/ second > 59

\* the value of the parsed fields; type is "datetime", or "utc" for the Z form
parsedDateValue(year, month, day, hour, minute, second, type) ==
  IF hour.nan \/ minute.nan \/ second.nan
    THEN IF isBadDate(year.value, month.value, day.value)
           THEN Thrown("Invalid ISO 8601 date string", NoDate)
           ELSE Returned(CalendarDate(year.value, month.value, day.value))
  ELSE IF isBadDate(year.value, month.value, day.value)
            \/ isBadTime(hour.value, minute.value, second.value)
    THEN Thrown("Invalid ISO 8601 date time string", NoDate)
  ELSE Returned([CalendarDateTime(year.value, month.value, day.value,
                                  hour.value, minute.value, second.value)
                   EXCEPT !.type = type])

parseICSDateText(value) ==
  IF ~isICSDateFormat(value) THEN Thrown("Invalid ICS date format", NoDate)
  ELSE parsedDateValue(parseInteger(slice(value, 0, 4)), parseInteger(slice(value, 4, 6)),
                       parseInteger(slice(value, 6, 8)), parseInteger(slice(value, 9, 11)),
                       parseInteger(slice(value, 11, 13)), parseInteger(slice(value, 13, 15)),
                       IF value[Len(value)] = "Z" THEN "utc" ELSE "datetime")

\* parseICSDateValue: YYYYMMDD is a CalendarDate, YYYYMMDDTHHMMSS a
\* CalendarDateTime, YYYYMMDDTHHMMSSZ a ZonedDateTime in UTC; parseDate,
\* parseDateTime and parseAbsolute reject fields out of range
parseICSDateValue(text0) == parseICSDateText(trim(text0))

\* the name spelled `value`, or the error when no name is
nameOf(names, value, message) ==
  IF value = <<>> \/ Named(names, value) = {} THEN Thrown(message, "")
  ELSE Returned(CHOOSE name \in Named(names, value) : TRUE)

parseFrequency(text0) == nameOf(Frequencies, toUpperCase(trim(text0)), FrequencyError)

parseWeekday(text0) == nameOf(Range(WEEKDAYS), toUpperCase(trim(text0)), "Invalid weekday")

\* the two groups of /^([+-]?\d{1,2})?([A-Z]{2})$/: what precedes the last
\* two characters, and those two
occurrencePart(value) ==
  IF Len(value) < 2 THEN <<>> ELSE SubSeq(value, 1, Len(value) - 2)

weekdayPart(value) ==
  IF Len(value) < 2 THEN <<>> ELSE SubSeq(value, Len(value) - 1, Len(value))

matchesWeekdayValue(occurrence, weekday) ==
  /\ Len(weekday) = 2
  /\ \A i \in DOMAIN weekday : isUpper(weekday[i])
  /\ occurrence # <<>> =>
       /\ Len(unsigned(occurrence)) \in 1..2
       /\ \A i \in DOMAIN unsigned(occurrence) : isDigit(unsigned(occurrence)[i])

occurrenceOf(name, occurrence, n) ==
  IF occurrence = <<>> THEN Returned(Bare(name))
  ELSE IF n = 0 THEN Thrown("Weekday occurrence cannot be 0", Bare(name))
  ELSE IF n < -53 \/ n > 53
    THEN Thrown("Weekday occurrence must be between -53 and 53", Bare(name))
  ELSE Returned(Nth(n, name))

weekdayValueOf(occurrence, weekday) ==
  IF ~matchesWeekdayValue(occurrence, weekday) THEN Thrown("Invalid weekday format", Bare(""))
  ELSE IF Named(Range(WEEKDAYS), weekday) = {} THEN Thrown("Invalid weekday", Bare(""))
  ELSE occurrenceOf(CHOOSE name \in Named(Range(WEEKDAYS), weekday) : TRUE, occurrence,
                    parseInteger(occurrence).value)

parseWeekdayText(value) ==
  IF value = <<>> THEN Thrown("Invalid weekday", Bare(""))
  ELSE weekdayValueOf(occurrencePart(value), weekdayPart(value))

\* parseWeekdayValue: /^([+-]?\d{1,2})?([A-Z]{2})$/, then the weekday and
\* the occurrence are checked
parseWeekdayValue(text0) == parseWeekdayText(toUpperCase(trim(text0)))

(***************************************************************************)
(* Sanitizing of weekdays and of whole option sets (sanitize.ts)           *)
(*                                                                         *)
(* A weekday a caller passes is a string, [string |-> characters], or an   *)
(* object, [weekday |-> name, n |-> occurrence].                           *)
(***************************************************************************)

WeekdayString(value) == [string |-> value]

WeekdayObject(weekday, n) == [weekday |-> weekday, n |-> n]

IsString(value) == "string" \in DOMAIN value

\* try { return f() } catch { return otherwise }
valueOr(result, otherwise) == IF result.error = "" THEN result.value ELSE otherwise

\* sanitizeWeekday: "" is the absent weekday
sanitizeWeekday(value) ==
  IF Named(Range(WEEKDAYS), value) # {}
    THEN CHOOSE name \in Named(Range(WEEKDAYS), value) : TRUE
    ELSE valueOr(parseWeekday(value), "")

isWeekdayValue(value) ==
  IF IsString(value) THEN Named(Range(WEEKDAYS), value.string) # {}
  ELSE isWeekdayName(value.weekday) /\ value.n > -53 /\ value.n < 53

\* sanitizeWeekdayValue, and the reading of what it returns as a bare
\* weekday or as an { weekday, n } object; Bare("") when it returns nothing
sanitizeWeekdayValue(value) ==
  IF isWeekdayValue(value)
    THEN IF IsString(value)
           THEN Bare(CHOOSE name \in Named(Range(WEEKDAYS), value.string) : TRUE)
           ELSE Nth(value.n, value.weekday)
  ELSE IF IsString(value) THEN valueOr(parseWeekdayValue(value.string), Bare(""))
  ELSE Bare("")

\* uniqueWeekdayValues: two entries are the same when both are bare and name
\* the same weekday, or both are objects with the same weekday and n
uniqueWeekdayValues(values) == unique(values)

sanitizeWeekdayValues(values) == [i \in DOMAIN values |-> sanitizeWeekdayValue(values[i])]

sanitizeWeekdayValueArray(values) ==
  uniqueWeekdayValues(SelectSeq(sanitizeWeekdayValues(values),
                                LAMBDA value : value.weekday # ""))

\* the fields of the sanitized options
sanitizedOptions(opts, freq, until) ==
  [freq |-> freq,
   dtstart |-> opts.dtstart,
   interval |-> sanitizeNumber(opts.interval, 1),
   count |-> sanitizeNumber(opts.count, 1),
   until |-> until,
   wkst |-> sanitizeWeekday(opts.wkst),
   bysetpos |-> sanitizeNumberArray(opts.bysetpos, -366, 366, FALSE),
   bymonth |-> sanitizeNumberArray(opts.bymonth, 1, 12, FALSE),
   bymonthday |-> sanitizeNumberArray(opts.bymonthday, -31, 31, FALSE),
   byyearday |-> sanitizeNumberArray(opts.byyearday, -366, 366, FALSE),
   byweekday |-> sanitizeWeekdayValueArray(opts.byweekday),
   byweekno |-> sanitizeNumberArray(opts.byweekno, -53, 53, FALSE),
   byhour |-> sanitizeNumberArray(opts.byhour, 0, 23, TRUE),
   byminute |-> sanitizeNumberArray(opts.byminute, 0, 59, TRUE),
   bysecond |-> sanitizeNumberArray(opts.bysecond, 0, 59, TRUE)]

\* the first error sanitizeRRuleOptions throws, if any
validatedOptions(freq, until, sanitized) ==
  IF freq.error # "" THEN Thrown(freq.error, sanitized)
  ELSE IF until.error # "" THEN Thrown(until.error, sanitized)
  ELSE IF sanitized.count # Undefined /\ sanitized.until.type # "none"
    THEN Thrown(CountUntilError, sanitized)
  ELSE IF ~validateBySetPos(sanitized) THEN Thrown(BySetPosError, sanitized)
  ELSE Returned(sanitized)

sanitizeWith(opts, freq, until) ==
  validatedOptions(freq, until, sanitizedOptions(opts, freq.value, until.value))

\* sanitizeRRuleOptions: the sanitized fields, and the first error thrown
sanitizeRRuleOptions(opts) ==
  sanitizeWith(opts, sanitizeFrequency(opts.freq), sanitizeUntilDate(opts.until, opts.dtstart))

(***************************************************************************)
(* The RRule class (rrule.ts): construction, field setters, setOptions     *)
(***************************************************************************)

\* the options object a stored rule spreads into setOptions and clone:
\* wkst as its string, byweekday as strings and objects
AsInput(opts) ==
  [opts EXCEPT
     !.wkst = IF opts.wkst = "" THEN <<>> ELSE Chars(opts.wkst),
     !.byweekday = [i \in DOMAIN opts.byweekday |->
                      IF opts.byweekday[i].bare
                        THEN WeekdayString(Chars(opts.byweekday[i].weekday))
                        ELSE WeekdayObject(opts.byweekday[i].weekday, opts.byweekday[i].n)]]

\* { ...options, ...overrides }: the keys of overrides replace those of options
Spread(opts, overrides) ==
  [key \in DOMAIN opts |-> IF key \in DOMAIN overrides THEN overrides[key] ELSE opts[key]]

NoInput == [AsInput(EmptyOptions) EXCEPT !.freq = ""]

EarlyDate == CalendarDate(2024, 1, 1)

StartDate == CalendarDate(2024, 1, 31)

MiddleDate == CalendarDate(2024, 2, 15)

LateDate == CalendarDate(2024, 3, 1)

ConstructorInputs ==
  { [NoInput EXCEPT !.dtstart = dtstart, !.count = count, !.until = until,
                    !.bysetpos = bysetpos, !.bymonth = bymonth, !.byhour = byhour] :
      dtstart \in {NoDate, StartDate}, count \in {Undefined, 2},
      until \in {NoDate, EarlyDate, MiddleDate}, bysetpos \in {<<>>, <<1>>},
      bymonth \in {<<>>, <<3>>}, byhour \in {<<>>, <<9>>} }
    \cup {[NoInput EXCEPT !.freq = "FORTNIGHTLY"]}

FreqInputs == {"", "DAILY", "FORTNIGHTLY"}

DtstartInputs == {NoDate, StartDate, LateDate}

IntervalInputs == {Undefined, 0, 2}

CountInputs == {Undefined, 0, 2}

UntilInputs == {NoDate, EarlyDate, MiddleDate}

WkstInputs == {<<>>, <<"s", "u">>, <<"X", "X">>}

BysetposInputs == {<<>>, <<0, 400>>, <<1, 1>>}

ByweekdayInputs == {<<>>, <<WeekdayString(<<"1", "f", "r">>), WeekdayObject("MO", 53)>>}

MaxIterationsInputs == {Undefined, 0, 5}

OptionsInputs ==
  { [count |-> 2], [until |-> MiddleDate], [count |-> 2, until |-> NoDate],
    [dtstart |-> LateDate], [bysetpos |-> <<1>>], [bymonth |-> <<>>],
    [bymonth |-> <<3>>, bysetpos |-> <<-1>>], [freq |-> "FORTNIGHTLY"] }

\* this._options = sanitized, unless sanitizing threw
constructed(sanitized) ==
  /\ sanitized.error = ""
  /\ options = sanitized.value
  /\ maxIterations = Undefined
  /\ threw = ""
  /\ calls = 0
  /\ week = Undefined
  /\ copy = NoCopy

\* new RRule(options): a constructor that throws leaves no rule behind
constructor(opts) == constructed(sanitizeRRuleOptions(opts))

\* the longest sequence of calls explored
MaxCalls == 2

RuleFrame ==
  /\ calls < MaxCalls
  /\ calls' = calls + 1
  /\ UNCHANGED <<gens, text, parsed, week, copy>>

\* this._options[field] = sanitized, unless sanitizing threw
assignField(field, sanitized) ==
  /\ threw' = sanitized.error
  /\ options' = IF sanitized.error # "" THEN options
                ELSE [options EXCEPT ![field] = sanitized.value]

set_freq(value) ==
  /\ assignField("freq", sanitizeFrequency(value))
  /\ UNCHANGED maxIterations
  /\ RuleFrame

set_dtstart(value) ==
  /\ options' = [options EXCEPT !.dtstart = value]
  /\ threw' = ""
  /\ UNCHANGED maxIterations
  /\ RuleFrame

set_interval(value) ==
  /\ options' = [options EXCEPT !.interval = sanitizeNumber(value, 1)]
  /\ threw' = ""
  /\ UNCHANGED maxIterations
  /\ RuleFrame

set_count_unchecked(value) ==
  /\ options' = [options EXCEPT !.count = sanitizeNumber(value, 1)]
  /\ threw' = ""
  /\ UNCHANGED maxIterations
  /\ RuleFrame

set_count(value) ==
  /\ IF value # Undefined /\ options.until.type # "none"
       THEN threw' = CountUntilError /\ UNCHANGED options
       ELSE threw' = "" /\ options' = [options EXCEPT !.count = sanitizeNumber(value, 1)]
  /\ UNCHANGED maxIterations
  /\ RuleFrame

set_until(value) ==
  /\ IF value.type # "none" /\ options.count # Undefined
       THEN threw' = CountUntilError /\ UNCHANGED options
       ELSE assignField("until", sanitizeUntilDate(value, options.dtstart))
  /\ UNCHANGED maxIterations
  /\ RuleFrame

set_wkst(value) ==
  /\ options' = [options EXCEPT !.wkst = sanitizeWeekday(value)]
  /\ threw' = ""
  /\ UNCHANGED maxIterations
  /\ RuleFrame

\* the assignment comes first, the validation after it
set_bysetpos(value) ==
  /\ options' = [options EXCEPT !.bysetpos = sanitizeNumberArray(value, -366, 366, FALSE)]
  /\ threw' = IF validateBySetPos(options') THEN "" ELSE BySetPosError
  /\ UNCHANGED maxIterations
  /\ RuleFrame

BymonthInputs == {<<>>, <<13, 3>>}

set_bymonth(value) ==
  /\ options' = [options EXCEPT !.bymonth = sanitizeNumberArray(value, 1, 12, FALSE)]
  /\ threw' = ""
  /\ UNCHANGED maxIterations
  /\ RuleFrame

BymonthdayInputs == {<<>>, <<-1, 32>>}

set_bymonthday(value) ==
  /\ options' = [options EXCEPT !.bymonthday = sanitizeNumberArray(value, -31, 31, FALSE)]
  /\ threw' = ""
  /\ UNCHANGED maxIterations
  /\ RuleFrame

ByyeardayInputs == {<<>>, <<100>>}

set_byyearday(value) ==
  /\ options' = [options EXCEPT !.byyearday = sanitizeNumberArray(value, -366, 366, FALSE)]
  /\ threw' = ""
  /\ UNCHANGED maxIterations
  /\ RuleFrame

ByweeknoInputs == {<<>>, <<20>>}

set_byweekno(value) ==
  /\ options' = [options EXCEPT !.byweekno = sanitizeNumberArray(value, -53, 53, FALSE)]
  /\ threw' = ""
  /\ UNCHANGED maxIterations
  /\ RuleFrame

ByhourInputs == {<<>>, <<0, 24>>}

set_byhour(value) ==
  /\ options' = [options EXCEPT !.byhour = sanitizeNumberArray(value, 0, 23, TRUE)]
  /\ threw' = ""
  /\ UNCHANGED maxIterations
  /\ RuleFrame

ByminuteInputs == {<<>>, <<30>>}

set_byminute(value) ==
  /\ options' = [options EXCEPT !.byminute = sanitizeNumberArray(value, 0, 59, TRUE)]
  /\ threw' = ""
  /\ UNCHANGED maxIterations
  /\ RuleFrame

BysecondInputs == {<<>>, <<60, 15>>}

set_bysecond(value) ==
  /\ options' = [options EXCEPT !.bysecond = sanitizeNumberArray(value, 0, 59, TRUE)]
  /\ threw' = ""
  /\ UNCHANGED maxIterations
  /\ RuleFrame

set_byweekday(value) ==
  /\ options' = [options EXCEPT !.byweekday = sanitizeWeekdayValueArray(value)]
  /\ threw' = ""
  /\ UNCHANGED maxIterations
  /\ RuleFrame

set_maxIterations(value) ==
  /\ IF value # Undefined /\ value < 1
       THEN threw' = MaxIterationsError /\ UNCHANGED maxIterations
       ELSE threw' = "" /\ maxIterations' = value
  /\ UNCHANGED options
  /\ RuleFrame

\* this._options = sanitized, unless sanitizing threw
assignOptions(sanitized) ==
  /\ threw' = sanitized.error
  /\ options' = IF sanitized.error # "" THEN options ELSE sanitized.value

setOptions(opts) ==
  /\ assignOptions(sanitizeRRuleOptions(Spread(AsInput(options), opts)))
  /\ UNCHANGED maxIterations
  /\ RuleFrame

RuleInit ==
  /\ \E opts \in ConstructorInputs : constructor(opts)
  /\ gens = [g \in 1..3 |-> NoGenerator]
  /\ text = <<>>
  /\ parsed = EmptyOptions

RuleNext ==
  \/ \E value \in FreqInputs : set_freq(value)
  \/ \E value \in DtstartInputs : set_dtstart(value)
  \/ \E value \in IntervalInputs : set_interval(value)
  \/ \E value \in CountInputs : set_count(value)
  \/ \E value \in UntilInputs : set_until(value)
  \/ \E value \in WkstInputs : set_wkst(value)
  \/ \E value \in BysetposInputs : set_bysetpos(value)
  \/ \E value \in BymonthInputs : set_bymonth(value)
  \/ \E value \in BymonthdayInputs : set_bymonthday(value)
  \/ \E value \in ByyeardayInputs : set_byyearday(value)
  \/ \E value \in ByweeknoInputs : set_byweekno(value)
  \/ \E value \in ByhourInputs : set_byhour(value)
  \/ \E value \in ByminuteInputs : set_byminute(value)
  \/ \E value \in BysecondInputs : set_bysecond(value)
  \/ \E value \in ByweekdayInputs : set_byweekday(value)
  \/ \E value \in MaxIterationsInputs : set_maxIterations(value)
  \/ \E opts \in OptionsInputs : setOptions(opts)

RuleSpec == RuleInit /\ [][RuleNext]_vars

\* C7: in every state a rule reaches, a non-empty bysetpos is accompanied
\* by at least one other non-empty BY* selector
C7_BySetPosAccompanied ==
  Len(options.bysetpos) > 0 =>
    \E key \in {"bymonth", "bymonthday", "byyearday", "byweekno", "byweekday",
                "byhour", "byminute", "bysecond"} : Len(options[key]) > 0

\* C28: a field setter or setOptions call that throws leaves every field of
\* the rule, bysetpos included, and maxIterations as they were before the call
C28_ThrowingCallChangesNothing ==
  [][threw' # "" => (options' = options /\ maxIterations' = maxIterations)]_vars

\* C8: in every state a rule reaches, until is not before dtstart when both
\* are set
C8_UntilNotBeforeDtstart ==
  (options.dtstart.type # "none" /\ options.until.type # "none")
    => compareDates(options.until, options.dtstart) >= 0

\* C9: in every state a rule reaches, count and until are never both set
C9_CountUntilExclusive ==
  ~(options.count # Undefined /\ options.until.type # "none")

\* a call that would have set the second of count and until has thrown
C9_Witness ==
  /\ threw = CountUntilError
  /\ options.count # Undefined \/ options.until.type # "none"

(***************************************************************************)
(* clone (rrule.ts)                                                        *)
(***************************************************************************)

\* toObject(): a copy of every option; maxIterations is not an option
toObject(opts) == [key \in DOMAIN opts |-> opts[key]]

\* new RRule({ ...this.toObject() }): the constructor stores the sanitized
\* options and leaves _maxIterations undefined
constructedFrom(sanitized) ==
  [made |-> TRUE,
   options |-> IF sanitized.error # "" THEN EmptyOptions ELSE sanitized.value,
   maxIterations |-> Undefined,
   threw |-> sanitized.error]

CloneRules == PairRules \cup {EndlessRule}

\* rule.maxIterations = n on a constructed rule
CloneInit ==
  /\ options \in CloneRules
  /\ maxIterations \in {Undefined} \cup 1..MaxSmallLimit
  /\ gens = [g \in 1..3 |-> NoGenerator]
  /\ threw = ""
  /\ calls = 0
  /\ week = Undefined
  /\ copy = NoCopy
  /\ text = <<>>
  /\ parsed = EmptyOptions

\* rule.clone()
clone ==
  /\ ~copy.made
  /\ copy' = constructedFrom(sanitizeRRuleOptions(AsInput(toObject(options))))
  /\ UNCHANGED <<options, maxIterations, threw, calls, gens, text, parsed, week>>

\* rule.all(MaxOut) and clone.all(MaxOut) start: generator 1 iterates the
\* rule, generator 2 the clone
allOfBoth ==
  /\ copy.made /\ copy.threw = ""
  /\ gens[1].status = "none"
  /\ gens' = [g \in 1..3 |->
                IF g = 1 THEN iterate(options, MaxOut)
                ELSE IF g = 2 THEN iterate(copy.options, MaxOut)
                ELSE NoGenerator]
  /\ UNCHANGED <<options, maxIterations, threw, calls, text, parsed, week, copy>>

\* each generator runs on the options and the maxIterations of its own rule
PullOwn(g) ==
  /\ gens[g].status = "running"
  /\ \A h \in 1..(g - 1) : gens[h].status # "running"
  /\ gens' = [gens EXCEPT ![g] =
                generateDatesStep(gens[g],
                                  IF g = 1 THEN options ELSE copy.options,
                                  IF g = 1 THEN maxIterations ELSE copy.maxIterations)]
  /\ UNCHANGED <<options, maxIterations, threw, calls, text, parsed, week, copy>>

CloneNext ==
  \/ clone
  \/ allOfBoth
  \/ \E g \in 1..2 : PullOwn(g)

CloneSpec == CloneInit /\ [][CloneNext]_vars

\* C30: clone() without overrides returns a rule on which every query gives
\* what it gives on the original, the same dates or the same error, also
\* when maxIterations has been set on the original
C30_CloneEquivalent ==
  /\ copy.made => (copy.threw = "" /\ copy.options = options)
  /\ (Stopped(1) /\ Stopped(2)) =>
       (gens[1].status = gens[2].status /\ gens[1].why = gens[2].why
          /\ gens[1].out = gens[2].out)

(***************************************************************************)
(* Sanitizing of ordinal weekdays and of numbers with a fractional part    *)
(***************************************************************************)

\* the largest ordinal of the byweekday entries explored
MaxOrdinal == 55

\* the entry { weekday: 'MO', n } and the entry written as text, "53MO"
OrdinalInput(form, n) ==
  IF form = "record" THEN WeekdayObject("MO", n)
  ELSE WeekdayString(decimal(n) \o <<"M", "O">>)

\* new RRule({})
WeekdayInit ==
  /\ constructor(NoInput)
  /\ gens = [g \in 1..3 |-> NoGenerator]
  /\ text = <<>>
  /\ parsed = EmptyOptions

\* rule.byweekday = [entry]
WeekdayNext ==
  \E form \in {"record", "text"}, n \in (0 - MaxOrdinal)..MaxOrdinal :
    set_byweekday(<<OrdinalInput(form, n)>>)

WeekdaySpec == WeekdayInit /\ [][WeekdayNext]_vars

\* C15: the sanitizer keeps a byweekday entry with ordinal n if and only if
\* 1 <= |n| <= 53, for the record form and for the textual form alike
C15_OrdinalKeptIffInRange ==
  [][\A form \in {"record", "text"}, n \in (0 - MaxOrdinal)..MaxOrdinal :
       set_byweekday(<<OrdinalInput(form, n)>>) =>
         (options'.byweekday = <<Nth(n, "MO")>>
            <=> (n # 0 /\ n >= -53 /\ n <= 53))]_vars

\* the unit of the numbers of the lists below: 15 is the number 1.5
Tenth == 10

\* the arguments each setter and sanitizeRRuleOptions pass for a selector
SelectorRange(field) ==
  CASE field = "bymonth" -> [min |-> 1, max |-> 12, allowZero |-> FALSE]
    [] field = "bymonthday" -> [min |-> -31, max |-> 31, allowZero |-> FALSE]
    [] field = "byyearday" -> [min |-> -366, max |-> 366, allowZero |-> FALSE]
    [] field = "byweekno" -> [min |-> -53, max |-> 53, allowZero |-> FALSE]
    [] field = "byhour" -> [min |-> 0, max |-> 23, allowZero |-> TRUE]
    [] field = "byminute" -> [min |-> 0, max |-> 59, allowZero |-> TRUE]
    [] OTHER -> [min |-> 0, max |-> 59, allowZero |-> TRUE]

NumberFields ==
  {"bymonth", "bymonthday", "byyearday", "byweekno", "byhour", "byminute", "bysecond"}

\* lists of numbers in tenths: whole numbers, numbers with a fractional
\* part, numbers out of range, zeros and repeated numbers
TenthsInputs ==
  {<<>>, <<10, 20>>, <<30, 30, 10>>, <<0, 130>>, <<15>>, <<15, 10>>, <<-10, 5>>,
   <<7000, 20>>, <<-5, 0>>}

\* rule[field] = values, for values that need not be whole numbers
set_numbers(field, values, range) ==
  /\ options' = [options EXCEPT ![field] =
                   sanitizeNumbersIn(Tenth, values, range.min, range.max, range.allowZero)]
  /\ threw' = ""
  /\ UNCHANGED maxIterations
  /\ RuleFrame

NumberInit == WeekdayInit

NumberNext ==
  \E field \in NumberFields, values \in TenthsInputs :
    set_numbers(field, values, SelectorRange(field))

NumberSpec == NumberInit /\ [][NumberNext]_vars

\* C16: after a BY* setter every numeric selector list holds only integers
\* inside the declared range of the selector, never 0 where 0 is forbidden,
\* and no number twice
C16_SelectorsWholeAndInRange ==
  \A field \in NumberFields : \A i \in DOMAIN options[field] :
    /\ options[field][i] % Tenth = 0
    /\ options[field][i] >= SelectorRange(field).min * Tenth
    /\ options[field][i] <= SelectorRange(field).max * Tenth
    /\ SelectorRange(field).allowZero \/ options[field][i] # 0
    /\ \A j \in 1..(i - 1) : options[field][j] # options[field][i]

(***************************************************************************)
(* Formatting (format.ts)                                                  *)
(*                                                                         *)
(* The text of a rule is the sequence of its content lines; a line is its  *)
(* name and its parameters, a parameter its key and the characters of its  *)
(* value.  Zoned values other than UTC are outside the model.              *)
(***************************************************************************)

ContentLine(name, params) == [name |-> name, params |-> params]

Param(key, value) == [key |-> key, value |-> value]

toCalendarDate(value) == CalendarDate(value.year, value.month, value.day)

toCalendarDateTime(value) == [value EXCEPT !.type = "datetime"]

\* toZoned(value, 'UTC')
toZoned(value) == [value EXCEPT !.type = "utc"]

\* YYYYMMDD
formatICSDate(value) ==
  padZero(value.year, 4) \o padZero(value.month, 2) \o padZero(value.day, 2)

\* HHMMSS
formatICSTime(value) ==
  padZero(value.hour, 2) \o padZero(value.minute, 2) \o padZero(value.second, 2)

formatICSDateValue(value) ==
  IF value.type = "date" THEN formatICSDate(value)
  ELSE formatICSDate(value) \o <<"T">> \o formatICSTime(value)
         \o (IF value.type = "utc" THEN <<"Z">> ELSE <<>>)

formatDTStart(value) ==
  ContentLine("DTSTART", <<Param("", formatICSDateValue(value))>>)

\* the variant of DTSTART that UNTIL is written in
untilLike(value, start) ==
  IF start.type = "none" THEN value
  ELSE IF start.type = "date" THEN toCalendarDate(value)
  ELSE IF start.type = "datetime" THEN toCalendarDateTime(value)
  ELSE toZoned(value)

\* formatUntilICSDateValue: UNTIL is written in the variant of DTSTART
formatUntilICSDateValue(value, start) ==
  IF start.type # "none" /\ compareDates(value, start) < 0
    THEN Thrown("UNTIL must not be before DTSTART", <<>>)
    ELSE Returned(formatICSDateValue(untilLike(value, start)))

formatWeekdayValue(value) ==
  IF isWeekday(value) THEN Chars(value.weekday)
  ELSE IF value.n = 0 THEN Chars(value.weekday)
  ELSE decimal(value.n) \o Chars(value.weekday)

\* numbers.join(',')
joinNumbers(numbers) == join([i \in DOMAIN numbers |-> decimal(numbers[i])], ",")

\* parts.push(`${key}=${numbers.join(',')}`) for a list that is not empty
listPart(key, numbers) ==
  IF Len(numbers) > 0 THEN <<Param(key, joinNumbers(numbers))>> ELSE <<>>

formatWeekdayValues(byweekday) ==
  join([i \in DOMAIN byweekday |-> formatWeekdayValue(byweekday[i])], ",")

\* the parameters of the RRULE line, in the order formatRRule writes them
formatParts(opts, until) ==
  <<Param("FREQ", Chars(opts.freq))>>
  \o (IF opts.interval # Undefined /\ opts.interval # 1
        THEN <<Param("INTERVAL", decimal(opts.interval))>> ELSE <<>>)
  \o (IF opts.count # Undefined THEN <<Param("COUNT", decimal(opts.count))>> ELSE <<>>)
  \o (IF opts.until.type # "none" THEN <<Param("UNTIL", until)>> ELSE <<>>)
  \o (IF opts.wkst # "" THEN <<Param("WKST", Chars(opts.wkst))>> ELSE <<>>)
  \o listPart("BYMONTH", opts.bymonth)
  \o listPart("BYMONTHDAY", opts.bymonthday)
  \o listPart("BYYEARDAY", opts.byyearday)
  \o listPart("BYWEEKNO", opts.byweekno)
  \o (IF Len(opts.byweekday) > 0
        THEN <<Param("BYDAY", formatWeekdayValues(opts.byweekday))>> ELSE <<>>)
  \o listPart("BYHOUR", opts.byhour)
  \o listPart("BYMINUTE", opts.byminute)
  \o listPart("BYSECOND", opts.bysecond)
  \o listPart("BYSETPOS", opts.bysetpos)

formatRRuleWith(opts, until) ==
  IF until.error # "" THEN Thrown(until.error, ContentLine("RRULE", <<>>))
  ELSE Returned(ContentLine("RRULE", formatParts(opts, until.value)))

formatRRule(opts) ==
  formatRRuleWith(opts,
    IF opts.until.type = "none" THEN Returned(<<>>)
    ELSE formatUntilICSDateValue(opts.until, opts.dtstart))

formatICSWith(opts, rrule) ==
  IF rrule.error # "" THEN Thrown(rrule.error, <<>>)
  ELSE IF opts.dtstart.type = "none" THEN Returned(<<rrule.value>>)
  ELSE Returned(<<formatDTStart(opts.dtstart), rrule.value>>)

formatICS(opts) == formatICSWith(opts, formatRRule(opts))

(***************************************************************************)
(* Parsing of rules (parser.ts)                                            *)
(***************************************************************************)

\* try { return parse(value) } catch { if (strict) throw new Error(message);
\* return otherwise }
parsedOr(result, strict, message, otherwise) ==
  IF result.error = "" THEN Returned(result.value)
  ELSE IF strict THEN Thrown(message, otherwise)
  ELSE Returned(otherwise)

parseRRuleFrequency(value, strict) ==
  IF parseFrequency(value).error # "" /\ strict THEN Thrown("Invalid FREQ value", "")
  ELSE Returned(valueOr(parseFrequency(value), "YEARLY"))

parseRRuleInterval(value, strict) ==
  IF parsePositiveInteger(value).error # "" /\ strict
    THEN Thrown("Invalid INTERVAL value", Undefined)
    ELSE Returned(valueOr(parsePositiveInteger(value), 1))

parseRRuleCount(value, strict) ==
  parsedOr(parsePositiveInteger(value), strict, "Invalid COUNT value", Undefined)

parseRRuleUntil(value, strict) ==
  parsedOr(parseICSDateValue(trim(value)), strict, "Invalid UNTIL value", NoDate)

parseRRuleWkst(value, strict) ==
  IF trim(value) = <<>> THEN Returned("")
  ELSE parsedOr(parseWeekday(value), strict, "Invalid WKST value", "")

parseWeekdayValues(weekdays) ==
  [i \in DOMAIN weekdays |-> parseWeekdayValue(weekdays[i])]

resultValues(results) == [i \in DOMAIN results |-> results[i].value]

\* the values that parsed, unless strict and one did not
weekdayValuesOf(results, good, strict) ==
  IF strict /\ Len(good) < Len(results) THEN Thrown("Invalid BYDAY value", <<>>)
  ELSE Returned(uniqueWeekdayValues(resultValues(good)))

parsedWeekdayValues(results, strict) ==
  weekdayValuesOf(results, SelectSeq(results, LAMBDA result : result.error = ""), strict)

parseRRuleByDay(value, strict) ==
  parsedWeekdayValues(parseWeekdayValues(parseList(value, ",")), strict)

\* the numbers in range, unless strict and one was not
numberListOf(numbers, values, strict) ==
  IF strict /\ Len(values) < Len(numbers) THEN Thrown("Invalid number list value", <<>>)
  ELSE Returned(unique(values))

validNumbers(numbers, min, max, excludeZero, strict) ==
  numberListOf(numbers,
    SelectSeq(numbers, LAMBDA number :
      ~(excludeZero /\ number = 0) /\ number >= min /\ number <= max),
    strict)

parseRRuleNumberList(value, min, max, excludeZero, strict) ==
  validNumbers(parseIntegerList(value, ","), min, max, excludeZero, strict)

\* the option a parameter key assigns, "" for a key parseRRule does not know
fieldOfKey(key) ==
  CASE key = "FREQ" -> "freq"
    [] key = "INTERVAL" -> "interval"
    [] key = "COUNT" -> "count"
    [] key = "UNTIL" -> "until"
    [] key = "WKST" -> "wkst"
    [] key \in {"BYDAY", "BYWEEKDAY"} -> "byweekday"
    [] key = "BYMONTH" -> "bymonth"
    [] key = "BYMONTHDAY" -> "bymonthday"
    [] key = "BYYEARDAY" -> "byyearday"
    [] key = "BYWEEKNO" -> "byweekno"
    [] key = "BYHOUR" -> "byhour"
    [] key = "BYMINUTE" -> "byminute"
    [] key = "BYSECOND" -> "bysecond"
    [] key = "BYSETPOS" -> "bysetpos"
    [] OTHER -> ""

\* the switch of parseRRule over the key of a parameter
parseField(field, value, strict) ==
  CASE field = "freq" -> parseRRuleFrequency(value, strict)
    [] field = "interval" -> parseRRuleInterval(value, strict)
    [] field = "count" -> parseRRuleCount(value, strict)
    [] field = "until" -> parseRRuleUntil(value, strict)
    [] field = "wkst" -> parseRRuleWkst(value, strict)
    [] field = "byweekday" -> parseRRuleByDay(value, strict)
    [] field = "bymonth" -> parseRRuleNumberList(value, 1, 12, TRUE, strict)
    [] field = "bymonthday" -> parseRRuleNumberList(value, -31, 31, TRUE, strict)
    [] field = "byyearday" -> parseRRuleNumberList(value, -366, 366, TRUE, strict)
    [] field = "byweekno" -> parseRRuleNumberList(value, -53, 53, TRUE, strict)
    [] field = "byhour" -> parseRRuleNumberList(value, 0, 23, FALSE, strict)
    [] field = "byminute" -> parseRRuleNumberList(value, 0, 59, FALSE, strict)
    [] field = "bysecond" -> parseRRuleNumberList(value, 0, 59, FALSE, strict)
    [] field = "bysetpos" -> parseRRuleNumberList(value, -366, 366, TRUE, strict)
    [] OTHER -> Thrown("Unknown RRULE parameter", 0)

assignParsed(opts, field, result) ==
  IF result.error # "" THEN Thrown(result.error, opts)
  ELSE Returned([opts EXCEPT ![field] = result.value])

\* one turn of the loop of parseRRule over the parameters: the field the
\* parameter names receives what the parameter's value parses to
parseParam(opts, param, strict) ==
  IF param.key = "" \/ param.value = <<>> THEN Thrown("Invalid RRULE parameter", opts)
  ELSE assignParsed(opts, fieldOfKey(param.key),
                    parseField(fieldOfKey(param.key), param.value, strict))

RECURSIVE parseParams(_, _, _)

\* the loop goes on after a turn, unless the turn threw in strict mode
nextParam(turn, params, strict) ==
  IF turn.error # "" /\ strict THEN turn
  ELSE parseParams(turn.value, Tail(params), strict)

parseParams(opts, params, strict) ==
  IF params = <<>> THEN Returned(opts)
  ELSE nextParam(parseParam(opts, Head(params), strict), params, strict)

\* the checks of parseRRule after its loop
parsedRRule(result) ==
  IF result.error # "" THEN result
  ELSE IF result.value.freq = "" THEN Thrown("Invalid RRule: FREQ is required", result.value)
  ELSE IF result.value.count # Undefined /\ result.value.until.type # "none"
    THEN Thrown("Invalid RRule: COUNT and UNTIL are mutually exclusive", result.value)
  ELSE result

\* parseRRule: freq "" is the frequency never assigned
parseRRule(line, strict) ==
  IF line.params = <<>> THEN Thrown("Invalid RRULE string", EmptyOptions)
  ELSE parsedRRule(parseParams([EmptyOptions EXCEPT !.freq = ""], line.params, strict))

\* parseDTStart of a line without TZID; an invalid date value throws in
\* both modes
parseDTStart(line, strict) ==
  IF line.params = <<>> \/ line.params[1].value = <<>>
    THEN IF strict THEN Thrown("Invalid DTSTART", NoDate) ELSE Returned(NoDate)
    ELSE parseICSDateValue(line.params[1].value)

linesNamed(lines, name) == {i \in DOMAIN lines : lines[i].name = name}

\* the options of the RRULE line, with the start the DTSTART lines gave
withDTStart(rrule, dtstart) ==
  IF rrule.error # "" THEN rrule
  ELSE IF dtstart.type # "none" THEN Returned([rrule.value EXCEPT !.dtstart = dtstart])
  ELSE rrule

\* the loop of parseICS over the lines, given what the DTSTART lines parse to
parsedLines(lines, strict, starts, rules, dtstarts, failed) ==
  IF failed # {} THEN Thrown(dtstarts[Least(failed)].error, EmptyOptions)
  ELSE IF rules = {} THEN Thrown("RRULE line not found in ICS string", EmptyOptions)
  ELSE withDTStart(parseRRule(lines[Greatest(rules)], strict),
                   IF starts = {} THEN NoDate ELSE dtstarts[Greatest(starts)].value)

parseLines(lines, strict, starts, dtstarts) ==
  parsedLines(lines, strict, starts, linesNamed(lines, "RRULE"), dtstarts,
              {i \in starts : dtstarts[i].error # ""})

\* parseICS: the last DTSTART line and the last RRULE line count
parseICS(lines, strict) ==
  parseLines(lines, strict, linesNamed(lines, "DTSTART"),
             [i \in linesNamed(lines, "DTSTART") |-> parseDTStart(lines[i], strict)])

(***************************************************************************)
(* toString and fromString on a sanitized rule                             *)
(***************************************************************************)

CodecInputs ==
  { [NoInput EXCEPT !.freq = freq, !.dtstart = dtstart, !.until = until, !.count = count,
                    !.interval = interval, !.wkst = wkst, !.byweekday = byweekday,
                    !.bymonth = bymonth, !.bysetpos = bysetpos] :
      freq \in {"", "WEEKLY"},
      dtstart \in {NoDate, CalendarDate(2025, 1, 1), CalendarDateTime(2025, 1, 1, 9, 0, 0),
                   toZoned(CalendarDateTime(2025, 1, 1, 9, 0, 0))},
      until \in {NoDate, CalendarDate(2025, 6, 1), CalendarDateTime(2025, 6, 1, 12, 0, 0)},
      count \in {Undefined, 10},
      interval \in {Undefined, 1, 2},
      wkst \in {<<>>, <<"S", "U">>},
      byweekday \in {<<>>,
                     <<WeekdayString(<<"M", "O">>), WeekdayObject("FR", -1)>>,
                     <<WeekdayString(<<"+", "2", "T", "U">>)>>,
                     <<WeekdayObject("MO", 0)>>},
      bymonth \in {<<>>, <<12, 3>>},
      bysetpos \in {<<>>, <<-1>>} }

\* rrule.toString()
toString ==
  /\ calls = 0
  /\ text' = formatICS(options).value
  /\ threw' = formatICS(options).error
  /\ calls' = 1
  /\ UNCHANGED <<options, maxIterations, gens, parsed, week, copy>>

\* new RRule(options) on the options parseICS returned, if it returned
fromParsed(result) ==
  IF result.error # "" THEN Thrown(result.error, EmptyOptions)
  ELSE sanitizeRRuleOptions(AsInput(result.value))

\* the rule fromString returns, or the error it throws
returnRule(rule) ==
  /\ threw' = rule.error
  /\ parsed' = IF rule.error # "" THEN EmptyOptions ELSE rule.value

\* RRule.fromString(text, strict).toObject(), on the text toString returned
fromString(strict) ==
  /\ calls = 1
  /\ threw = ""
  /\ returnRule(fromParsed(parseICS(text, strict)))
  /\ calls' = 2
  /\ UNCHANGED <<options, maxIterations, gens, text, week, copy>>

CodecInit ==
  /\ \E opts \in CodecInputs : constructor(opts)
  /\ gens = [g \in 1..3 |-> NoGenerator]
  /\ text = <<>>
  /\ parsed = EmptyOptions

CodecNext ==
  \/ toString
  \/ \E strict \in BOOLEAN : fromString(strict)

CodecSpec == CodecInit /\ [][CodecNext]_vars

(***************************************************************************)
(* Parsing of texts that were not produced by formatICS                    *)
(***************************************************************************)

NumberListKeys ==
  {"BYMONTH", "BYMONTHDAY", "BYYEARDAY", "BYWEEKNO", "BYHOUR", "BYMINUTE", "BYSECOND",
   "BYSETPOS"}

NumberListValues ==
  {<<"3">>,
   <<"1", ",", "2">>,
   <<"1", "3">>,
   <<"0">>,
   <<"-", "1">>,
   <<"+", "2">>,
   <<"1", ",", "a", "b", "c">>,
   <<"a", "b", "c">>,
   <<"1", ".", "5">>,
   <<"1", "2", "a", "b", "c">>,
   <<"6", "0">>,
   <<"-", "4", "0", "0">>}

PositiveValues ==
  {<<"3">>,
   <<"0">>,
   <<"-", "1">>,
   <<"a", "b", "c">>,
   <<"3", "x">>,
   <<"2", ".", "5">>}

FrequencyValues ==
  {<<"D", "A", "I", "L", "Y">>,
   <<"d", "a", "i", "l", "y">>,
   <<"F", "O", "R", "T", "N", "I", "G", "H", "T", "L", "Y">>}

WeekdayValues ==
  {<<"M", "O">>,
   <<"1", "M", "O">>,
   <<"-", "1", "F", "R">>,
   <<"5", "3", "M", "O">>,
   <<"0", "M", "O">>,
   <<"5", "4", "M", "O">>,
   <<"X", "X">>,
   <<"M", "O", ",", "X", "X">>,
   <<"1", "M">>}

UntilValues ==
  {<<"2", "0", "2", "5", "0", "6", "0", "1">>,
   <<"2", "0", "2", "5", "1", "3", "0", "1">>,
   <<"2", "0", "2", "5">>}

WkstValues ==
  {<<"S", "U">>,
   <<"X", "X">>}

\* the KEY=VALUE parts tried after FREQ=DAILY: well-formed ones, values that
\* are no literal of their kind or lie out of range, a part without a
\* value, a part without a key, and an unknown key
ExtraParts ==
  {Param(key, value) : key \in NumberListKeys, value \in NumberListValues}
    \cup {Param(key, value) : key \in {"INTERVAL", "COUNT"}, value \in PositiveValues}
    \cup {Param("BYDAY", value) : value \in WeekdayValues}
    \cup {Param("UNTIL", value) : value \in UntilValues}
    \cup {Param("WKST", value) : value \in WkstValues}
    \cup {Param("COUNT", <<>>), Param("", <<"3">>), Param("FOO", <<"1">>)}

\* the lists of parts of the RRULE lines parsed
ParseParts ==
  {<<Param("FREQ", Chars("DAILY")), part>> : part \in ExtraParts}
    \cup {<<Param("FREQ", value)>> : value \in FrequencyValues \cup {<<>>}}
    \cup {<<Param("FREQ", Chars("DAILY")), Param("COUNT", count), Param("UNTIL", until)>> :
            count \in PositiveValues, until \in UntilValues}

\* an RRULE line alone, or after a DTSTART line
ParseTexts ==
  {<<ContentLine("RRULE", parts)>> : parts \in ParseParts}
    \cup {<<formatDTStart(CalendarDate(2025, 1, 1)), ContentLine("RRULE", parts)>> :
            parts \in ParseParts}

ParseInit ==
  /\ text \in ParseTexts
  /\ options = EmptyOptions
  /\ maxIterations = Undefined
  /\ gens = [g \in 1..3 |-> NoGenerator]
  /\ parsed = EmptyOptions
  /\ threw = ""
  /\ calls = 0
  /\ week = Undefined
  /\ copy = NoCopy

\* parseICS(text, strict)
parseText(strict) ==
  /\ calls = 0
  /\ returnRule(parseICS(text, strict))
  /\ calls' = 1
  /\ UNCHANGED <<options, maxIterations, gens, text, week, copy>>

ParseNext == \E strict \in BOOLEAN : parseText(strict)

ParseSpec == ParseInit /\ [][ParseNext]_vars

\* an optional sign followed by digits and nothing else
isIntegerLiteral(value) ==
  /\ unsigned(value) # <<>>
  /\ \A i \in DOMAIN unsigned(value) : isDigit(unsigned(value)[i])

literalValue(value) ==
  IF value[1] = "-" THEN 0 - digitsValue(unsigned(value)) ELSE digitsValue(unsigned(value))

\* the range the rule declares for the numbers of a key
DeclaredRange(key) ==
  CASE key = "BYMONTH" -> [min |-> 1, max |-> 12, zero |-> FALSE]
    [] key = "BYMONTHDAY" -> [min |-> -31, max |-> 31, zero |-> FALSE]
    [] key \in {"BYYEARDAY", "BYSETPOS"} -> [min |-> -366, max |-> 366, zero |-> FALSE]
    [] key = "BYWEEKNO" -> [min |-> -53, max |-> 53, zero |-> FALSE]
    [] key = "BYHOUR" -> [min |-> 0, max |-> 23, zero |-> TRUE]
    [] key \in {"BYMINUTE", "BYSECOND"} -> [min |-> 0, max |-> 59, zero |-> TRUE]
    [] OTHER -> [min |-> 1, max |-> 1000000, zero |-> FALSE]

isNumberLiteral(value, range) ==
  /\ isIntegerLiteral(value)
  /\ literalValue(value) >= range.min
  /\ literalValue(value) <= range.max
  /\ range.zero \/ literalValue(value) # 0

\* a weekday name in either case, alone or after an ordinal of one or two
\* digits that is not 0 and not beyond 53
isWeekdayLiteral(value) ==
  /\ Named(Range(WEEKDAYS), toUpperCase(weekdayPart(value))) # {}
  /\ occurrencePart(value) # <<>> =>
       /\ Len(unsigned(occurrencePart(value))) <= 2
       /\ isNumberLiteral(occurrencePart(value), [min |-> -53, max |-> 53, zero |-> FALSE])

\* YYYYMMDD naming a day that exists
isDateLiteral(value) ==
  /\ Len(value) = 8
  /\ \A i \in DOMAIN value : isDigit(value[i])
  /\ ~isBadDate(digitsValue(SubSeq(value, 1, 4)), digitsValue(SubSeq(value, 5, 6)),
                digitsValue(SubSeq(value, 7, 8)))

allEntries(value, isLiteral(_)) ==
  \A k \in DOMAIN split(value, ",") : isLiteral(split(value, ",")[k])

isRangeLiteral(key, value) == isNumberLiteral(value, DeclaredRange(key))

\* the part has a key the rule knows and a value that is a literal of the
\* kind of the key, every number inside its declared range
isWellFormedPart(part) ==
  /\ part.value # <<>>
  /\ CASE part.key = "FREQ" -> Named(Frequencies, toUpperCase(part.value)) # {}
       [] part.key \in {"INTERVAL", "COUNT"} -> isRangeLiteral(part.key, part.value)
       [] part.key = "UNTIL" -> isDateLiteral(part.value)
       [] part.key = "WKST" -> Named(Range(WEEKDAYS), toUpperCase(part.value)) # {}
       [] part.key = "BYDAY" -> allEntries(part.value, isWeekdayLiteral)
       [] part.key \in NumberListKeys ->
            allEntries(part.value, LAMBDA entry : isRangeLiteral(part.key, entry))
       [] OTHER -> FALSE

partsOf(lines) == lines[Len(lines)].params

\* C13: in strict mode parsing fails whenever a KEY=VALUE part of the RRULE
\* line is malformed, has an unknown key, or has a value or list entry that
\* is no well-formed literal or lies outside its declared range
C13_StrictRejectsMalformed ==
  [][parseText(TRUE) =>
       ((\E i \in DOMAIN partsOf(text) : ~isWellFormedPart(partsOf(text)[i]))
          => threw' # "")]_vars

\* C14: in lenient mode the parse of an RRULE line with a FREQ part fails
\* only when the line has both a COUNT part and an UNTIL part
C14_LenientFailsOnlyOnCountWithUntil ==
  [][parseText(FALSE) =>
       ((threw' # "" /\ \E i \in DOMAIN partsOf(text) : partsOf(text)[i].key = "FREQ")
          => /\ \E i \in DOMAIN partsOf(text) : partsOf(text)[i].key = "COUNT"
             /\ \E i \in DOMAIN partsOf(text) : partsOf(text)[i].key = "UNTIL")]_vars

\* two date fields hold the same value: both absent, or the same moment
SameMoment(a, b) ==
  IF a.type = "none" \/ b.type = "none" THEN a.type = b.type
  ELSE compareDates(a, b) = 0

\* two rules are equal field by field, an absent interval being the
\* interval 1 and an absent list the empty list
SameRule(a, b) ==
  /\ a.freq = b.freq
  /\ SameMoment(a.dtstart, b.dtstart)
  /\ (IF a.interval = Undefined THEN 1 ELSE a.interval)
       = (IF b.interval = Undefined THEN 1 ELSE b.interval)
  /\ a.count = b.count
  /\ SameMoment(a.until, b.until)
  /\ a.wkst = b.wkst
  /\ \A key \in {"bysetpos", "bymonth", "bymonthday", "byyearday", "byweekno",
                 "byweekday", "byhour", "byminute", "bysecond"} : a[key] = b[key]

\* C10: parsing the text that formatting a sanitized rule R produced yields
\* a rule equal to R field by field
C10_RoundTrip ==
  (calls = 2 /\ text # <<>>) => threw = "" /\ SameRule(parsed, options)

====
